---- MODULE Spec2Model ----
(***************************************************************************)
(* Model of lgtr_infra: of io_adapters.py the retry wrapper, the batch     *)
(* executor gapi_batch_wrapper, the three IoAdapter variants, the listing  *)
(* loop and the parallel downloader; of auth.py the token providers and    *)
(* firebase_verify_id_token; SecretsConfigAirtable.load_secrets of         *)
(* secrets_config.py; calc_resize_dims of image.py.                        *)
(***************************************************************************)
EXTENDS Integers, Sequences, FiniteSets, TLC

(***************************************************************************)
(* State.                                                                  *)
(*   b_*  a call of gapi_batch_wrapper on its own                          *)
(*   d_*  a call of IoAdapterGdrive.download_bytes                         *)
(*   r_*  two callers of one IoAdapterGdrive at the same time              *)
(*   t_*  a TokenProvider / TokenProviderRefresh and the clock             *)
(*   v_*  a call of firebase_verify_id_token                               *)
(*   l_*  a call of IoAdapterGdrive.list_gdrive, page by page              *)
(*   s_*  a SecretsConfigAirtable and the process environment              *)
(*   i_*  a call of image.calc_resize_dims                                 *)
(*   the rest: one IoAdapter instance, its backing store and its caller;   *)
(*        heap holds the FileMeta objects of the call, by reference        *)
(***************************************************************************)
VARIABLES b_pc, b_n, b_rs, b_outs, b_att, b_res, b_exec, b_sub, b_prev

VARIABLES d_pc, d_urls, d_k, d_task, d_order, d_head, d_res

VARIABLES variant, fs, drive, pc, op, retry, ret, last, created, flt, tmp, heap, ref

VARIABLES r_drive, r_pc, r_op, r_retry, r_ret, r_look, r_flt

VARIABLES t_kind, t_now, t_margin_sec, t_dt_expires, t_token_response, t_issued, t_calls,
          t_ret, t_call

batchVars == <<b_pc, b_n, b_rs, b_outs, b_att, b_res, b_exec, b_sub, b_prev>>

dlVars == <<d_pc, d_urls, d_k, d_task, d_order, d_head, d_res>>

adVars == <<variant, fs, drive, pc, op, retry, ret, last, created, flt, tmp, heap, ref>>

raceVars == <<r_drive, r_pc, r_op, r_retry, r_ret, r_look, r_flt>>

VARIABLES v_pc, v_arg, v_n_retries, v_log, v_slept, v_ret

VARIABLES l_pc, l_n, l_kwargs, l_page_token, l_file_list, l_reqs, l_ret

VARIABLES s_self, s_environ, s_queries, s_ret, s_call, s_calls

VARIABLES i_pc, i_image_shape, i_width, i_height, i_downsample_only, i_ret

tokVars == <<t_kind, t_now, t_margin_sec, t_dt_expires, t_token_response, t_issued, t_calls,
             t_ret, t_call>>

verVars == <<v_pc, v_arg, v_n_retries, v_log, v_slept, v_ret>>

lstVars == <<l_pc, l_n, l_kwargs, l_page_token, l_file_list, l_reqs, l_ret>>

secVars == <<s_self, s_environ, s_queries, s_ret, s_call, s_calls>>

imgVars == <<i_pc, i_image_shape, i_width, i_height, i_downsample_only, i_ret>>

vars == <<batchVars, dlVars, adVars, raceVars, tokVars, verVars, lstVars, secVars, imgVars>>

(***************************************************************************)
(* Bounds of the model.                                                    *)
(***************************************************************************)
MaxReq == 3

MaxUrls == 2

MaxWorkers == 2

MaxObjs == 3

MaxFaults == 1

ChunkSize == 2

PageSize == 1

(***************************************************************************)
(* Python values.  Every value is a record tagged by its type in field t,  *)
(* so that values of different types can be compared.                      *)
(***************************************************************************)
None == [t |-> "None"]

Bytes(data) == [t |-> "bytes", data |-> data]

PyInt(n) == [t |-> "int", v |-> n]

Str(s) == [t |-> "str", text |-> s]

\* A dict of the provider: `has` is the set of keys present.
Dict(has, id, name, parents) ==
    [t |-> "dict", has |-> has, id |-> id, name |-> name, parents |-> parents]

EmptyDict == Dict({}, 0, "", <<>>)

\* Python truthiness of a value: None and the empty dict are falsy.
Truthy(v) == v.t # "None" /\ ~(v.t = "dict" /\ v.has = {})

Return(v) == [kind |-> "return", val |-> v]

Raise(e) == [kind |-> "raise", exc |-> e]

Range(s) == {s[i] : i \in DOMAIN s}

(***************************************************************************)
(* Exceptions.                                                             *)
(***************************************************************************)
\* googleapiclient.errors.HttpError; reason is error_details[0]['reason'].
HttpError(reason) == [t |-> "HttpError", reason |-> reason]

TemporaryException(msg, cause) ==
    [t |-> "TemporaryException", msg |-> msg, cause |-> cause]

\* A plain Exception(msg): it carries its message and nothing else.
Exception(msg) == [t |-> "Exception", msg |-> msg]

\* str(e) of an exception: the text of the error, not the error object.
StrOf(e) == Str(IF e.t = "HttpError" THEN e.reason ELSE e.t)

RateLimited == HttpError("userRateLimitExceeded")

NotFound == HttpError("notFound")

\* An error of the transport under the provider's client (not an HttpError).
TransportError == [t |-> "TransportError"]

(***************************************************************************)
(* retry_gdrive = retry(exceptions=(TemporaryException,), tries=4,         *)
(*                      delay=1, backoff=2)                                *)
(***************************************************************************)
RetryTries == 4

RetryDelay == 1

RetryBackoff == 2

\* The wrapper's locals before the first attempt; calls counts the attempts
\* of the wrapped function and slept lists the time.sleep() arguments.
RetryStart == [tries |-> RetryTries, delay |-> RetryDelay, slept |-> <<>>, calls |-> 0]

RetryCatches(out) == out.kind = "raise" /\ out.exc.t = "TemporaryException"

\* A wrapper that does not multiply the delay.
RetryAfterFixedDelay(rs, out) ==
    IF RetryCatches(out)
    THEN IF rs.tries - 1 = 0
         THEN [rs |-> [rs EXCEPT !.tries = 0, !.calls = @ + 1], done |-> TRUE]
         ELSE [rs |-> [tries |-> rs.tries - 1,
                       delay |-> rs.delay,
                       slept |-> Append(rs.slept, rs.delay),
                       calls |-> rs.calls + 1],
               done |-> FALSE]
    ELSE [rs |-> [rs EXCEPT !.calls = @ + 1], done |-> TRUE]

\* One turn of the wrapper's loop around an attempt whose outcome is out:
\* a caught exception costs one try and, unless it was the last, is followed
\* by a sleep of the current delay, which is then multiplied by the backoff.
\* done tells whether out leaves the wrapper (a return, an exception that is
\* not caught, or the caught exception of the last try).
RetryAfter(rs, out) ==
    IF RetryCatches(out)
    THEN IF rs.tries - 1 = 0
         THEN [rs |-> [rs EXCEPT !.tries = 0, !.calls = @ + 1], done |-> TRUE]
         ELSE [rs |-> [tries |-> rs.tries - 1,
                       delay |-> rs.delay * RetryBackoff,
                       slept |-> Append(rs.slept, rs.delay),
                       calls |-> rs.calls + 1],
               done |-> FALSE]
    ELSE [rs |-> [rs EXCEPT !.calls = @ + 1], done |-> TRUE]

(***************************************************************************)
(* raise_if_temporary_exception and gapi_batch_wrapper                     *)
(***************************************************************************)
IsRateLimit(e) == e.t = "HttpError" /\ e.reason = "userRateLimitExceeded"

raise_if_temporary_exception(e) ==
    IF IsRateLimit(e)
    THEN Raise(TemporaryException("Google API rate limit exceeded", e))
    ELSE Return(None)

\* A callback that records no entry for a request without a response.
batch_callback_skip_empty(outs) ==
    LET answered == SelectSeq(outs, LAMBDA o : Truthy(o.resp))
        failed == SelectSeq(outs, LAMBDA o : Truthy(o.exc))
    IN [response_objects |-> [i \in DOMAIN answered |-> answered[i].resp],
        exceptions |-> [i \in DOMAIN failed |-> failed[i].exc]]

\* batch_callback(rid, resp, exc) applied to the results of the requests in
\* request order: the exceptions list and the response_objects list.
RECURSIVE batch_callback(_)
batch_callback(outs) ==
    IF outs = <<>>
    THEN [response_objects |-> <<>>, exceptions |-> <<>>]
    ELSE LET n == Len(outs)
             acc == batch_callback(SubSeq(outs, 1, n - 1))
             o == outs[n]
         IN [response_objects |->
                 Append(acc.response_objects, IF Truthy(o.resp) THEN o.resp ELSE None),
             exceptions |->
                 IF Truthy(o.exc) THEN Append(acc.exceptions, o.exc) ELSE acc.exceptions]

\* Only the first collected exception is inspected.
FirstTemporaryHeadOnly(excs) ==
    IF excs = <<>> THEN Return(None) ELSE raise_if_temporary_exception(excs[1])

\* The loop `for exception in exceptions: raise_if_temporary_exception(...)`:
\* the outcome of the first call that raises, a return when none does.
FirstTemporary(excs) ==
    IF \E i \in DOMAIN excs : raise_if_temporary_exception(excs[i]).kind = "raise"
    THEN LET i == CHOOSE j \in DOMAIN excs :
                     /\ raise_if_temporary_exception(excs[j]).kind = "raise"
                     /\ \A k \in 1..(j - 1) :
                            raise_if_temporary_exception(excs[k]).kind = "return"
         IN raise_if_temporary_exception(excs[i])
    ELSE Return(None)

\* Only the first collected exception is reported.
BatchMessageHeadOnly(excs) ==
    <<Str("Batch request failed: "), StrOf(excs[1])>>

\* 'Batch request failed: \n' + '\n'.join([str(e) for e in exceptions])
BatchMessage(excs) ==
    <<Str("Batch request failed: ")>> \o [i \in DOMAIN excs |-> StrOf(excs[i])]

\* The body of gapi_batch_wrapper (one attempt) for the results outs that
\* batch.execute() hands to the callback.
gapi_batch_body(outs) ==
    LET c == batch_callback(outs)
        temporary == FirstTemporary(c.exceptions)
    IN IF temporary.kind = "raise" THEN temporary
       ELSE IF Len(c.exceptions) > 0 THEN Raise(Exception(BatchMessage(c.exceptions)))
       ELSE Return(c.response_objects)

(***************************************************************************)
(* The batch executor on its own: a call with n requests, the provider     *)
(* answering every request of every attempt as it likes.                   *)
(***************************************************************************)
\* What the provider can answer to one request.
SomeDict == Dict({"id", "name"}, 1, "a", <<>>)

ProviderAnswers ==
    { [resp |-> SomeDict, exc |-> None],
      [resp |-> EmptyDict, exc |-> None],
      [resp |-> None, exc |-> RateLimited],
      [resp |-> None, exc |-> NotFound] }

\* gapi_batch_wrapper(service, query_objects) is called with n requests.
BatchCall ==
    /\ b_pc \in {"idle", "done"}
    /\ \E n \in 0..MaxReq : b_n' = n
    /\ b_pc' = "run"
    /\ b_rs' = RetryStart
    /\ b_outs' = <<>>
    /\ b_att' = Return(None)
    /\ b_res' = Return(None)
    /\ b_exec' = 0
    /\ b_sub' = [i \in 1..b_n' |-> 0]
    /\ b_prev' = {}
    /\ UNCHANGED <<dlVars, adVars, raceVars, tokVars, verVars, lstVars, secVars, imgVars>>

\* The requests of an attempt, given the results of the attempt before it:
\* only those that failed in the attempt before.
BatchOfFailedOnly(query_objects, earlier) ==
    IF earlier = <<>> THEN query_objects
    ELSE SelectSeq(query_objects,
                   LAMBDA q : q \in DOMAIN earlier /\ Truthy(earlier[q].exc))

\* The requests of an attempt: the retry wrapper calls the function again
\* with the same query_objects, and the body adds every one of them to a new
\* batch, whatever the attempt before returned.
BatchOf(query_objects, earlier) == query_objects

\* The wrapper's turn after an attempt of outcome att on results outs of
\* the requests in batch.  b_sub counts how often each request has been
\* added to a batch, b_prev keeps the requests that the attempt before had
\* a response for.
BatchAfter(batch, outs, att) ==
    LET ra == RetryAfter(b_rs, att)
    IN /\ b_outs' = outs
       /\ b_prev' = {i \in DOMAIN b_outs : Truthy(b_outs[i].resp)}
       /\ b_sub' = [i \in 1..b_n |->
                       b_sub[i] + Cardinality({k \in DOMAIN batch : batch[k] = i})]
       /\ b_att' = att
       /\ b_rs' = ra.rs
       /\ b_exec' = b_exec + 1
       /\ b_pc' = IF ra.done THEN "done" ELSE "run"
       /\ b_res' = IF ra.done THEN att ELSE b_res
       /\ UNCHANGED <<b_n, dlVars, adVars, raceVars, tokVars, verVars, lstVars, secVars, imgVars>>

\* One attempt: batch.execute() runs every request, the body inspects the
\* exceptions, and the retry wrapper either sleeps and goes on or is left.
BatchAttempt ==
    /\ b_pc = "run"
    /\ LET batch == BatchOf([i \in 1..b_n |-> i], b_outs)
       IN \E outs \in [DOMAIN batch -> ProviderAnswers] :
              BatchAfter(batch, outs, gapi_batch_body(outs))

\* One attempt in which batch.execute() itself raises: no callback runs.
BatchExecuteRaises ==
    /\ b_pc = "run"
    /\ BatchAfter(BatchOf([i \in 1..b_n |-> i], b_outs), <<>>, Raise(TransportError))

BatchNext == BatchCall \/ BatchAttempt \/ BatchExecuteRaises

(***************************************************************************)
(* IoAdapterGdrive.download_bytes: a pool of max_workers threads, one      *)
(* task per URL, each task the retry-wrapped download_file.                *)
(***************************************************************************)
http_response_to_retry == {408, 425, 429, 500, 502, 503, 504}

\* The kinds of URL of the model and the responses their servers give.
UrlKinds == {"ok", "gone", "fails500", "flaky"}

Response(status, content) == [status_code |-> status, content |-> content]

ServerResponses(url) ==
    CASE url = "ok" -> {Response(200, Bytes(<<1, 2>>))}
      [] url = "gone" -> {Response(404, Bytes(<<>>))}
      [] url = "fails500" -> {Response(500, Bytes(<<>>))}
      [] url = "flaky" -> {Response(200, Bytes(<<3>>)), Response(503, Bytes(<<>>))}

\* A download_file that treats no status as retryable.
download_file_no_retry(response) ==
    IF response.status_code # 200 THEN Return(None) ELSE Return(response.content)

\* A download_file for which every status other than 200 is retryable.
download_file_retry_any(response) ==
    IF response.status_code # 200
    THEN Raise(TemporaryException("HTTP error", PyInt(response.status_code)))
    ELSE Return(response.content)

\* The body of download_file for the response of client.get(url).
download_file(response) ==
    IF response.status_code # 200
    THEN IF response.status_code \in http_response_to_retry
         THEN Raise(TemporaryException("HTTP error", PyInt(response.status_code)))
         ELSE Return(None)
    ELSE Return(response.content)

\* The URL lists of a call: up to MaxUrls URLs, at most one of them of a
\* server that answers with a retryable status.
UrlLists ==
    {urls \in UNION {[1..n -> UrlKinds] : n \in 0..MaxUrls} :
        \A i, j \in DOMAIN urls :
            urls[i] \in {"fails500", "flaky"} /\ urls[j] \in {"fails500", "flaky"} => i = j}

\* download_bytes(urls, max_workers): every URL is submitted to the pool.
DlCall ==
    /\ d_pc \in {"idle", "done"}
    /\ \E urls \in UrlLists, k \in 1..MaxWorkers :
         /\ d_urls' = urls
         /\ d_k' = k
         /\ d_task' = [i \in DOMAIN urls |->
                          [st |-> "pending", rs |-> RetryStart, out |-> Return(None)]]
    /\ d_pc' = "pool"
    /\ d_order' = <<>>
    /\ d_head' = <<>>
    /\ d_res' = Return(None)
    /\ UNCHANGED <<batchVars, adVars, raceVars, tokVars, verVars, lstVars, secVars, imgVars>>

Running == {i \in DOMAIN d_task : d_task[i].st = "running"}

Pending == {i \in DOMAIN d_task : d_task[i].st = "pending"}

\* A pool that starts a thread for every queued task.
DlStartUnbounded ==
    /\ d_pc \in {"pool", "gather"}
    /\ Pending # {}
    /\ LET i == CHOOSE j \in Pending : \A h \in Pending : j <= h
       IN d_task' = [d_task EXCEPT ![i].st = "running"]
    /\ UNCHANGED <<d_pc, d_urls, d_k, d_order, d_head, d_res, batchVars, adVars, raceVars,
                   tokVars, verVars, lstVars, secVars, imgVars>>

\* A free worker takes the oldest task of the pool's queue.
DlStart ==
    /\ d_pc \in {"pool", "gather"}
    /\ Pending # {}
    /\ Cardinality(Running) < d_k
    /\ LET i == CHOOSE j \in Pending : \A h \in Pending : j <= h
       IN d_task' = [d_task EXCEPT ![i].st = "running"]
    /\ UNCHANGED <<d_pc, d_urls, d_k, d_order, d_head, d_res, batchVars, adVars, raceVars,
                   tokVars, verVars, lstVars, secVars, imgVars>>

\* One attempt of download_file in a running task: the GET, the status
\* check and the retry wrapper's turn (with its sleep).  d_order lists the
\* tasks in the order in which they finish.
DlGet ==
    /\ d_pc \in {"pool", "gather"}
    /\ \E i \in Running : \E response \in ServerResponses(d_urls[i]) :
         LET out == download_file(response)
             ra == RetryAfter(d_task[i].rs, out)
         IN /\ d_task' = [d_task EXCEPT ![i] =
                              [st |-> IF ra.done THEN "done" ELSE "running",
                               rs |-> ra.rs,
                               out |-> out]]
            /\ d_order' = IF ra.done THEN Append(d_order, i) ELSE d_order
    /\ UNCHANGED <<d_pc, d_urls, d_k, d_head, d_res, batchVars, adVars, raceVars, tokVars, verVars, lstVars, secVars, imgVars>>

\* The orders in which the tasks of sequence s can be arranged.
Perms(s) == {p \in [DOMAIN s -> Range(s)] : Range(p) = Range(s)}

\* The submit loop is over and as_completed(tasks) is entered: the tasks
\* that have finished by now are a set, which as_completed yields first, in
\* the order of that set's iteration (d_head); the tasks that finish later
\* are yielded as they finish.
DlAsCompleted ==
    /\ d_pc = "pool"
    /\ d_pc' = "gather"
    /\ d_head' \in Perms(d_order)
    /\ UNCHANGED <<d_urls, d_k, d_task, d_order, d_res, batchVars, adVars, raceVars, tokVars, verVars, lstVars, secVars, imgVars>>

\* The order in which as_completed yields the finished tasks.
Yielded == d_head \o SubSeq(d_order, Len(d_head) + 1, Len(d_order))

\* The results in the order of the URLs.
GatherInInputOrder(order, task) ==
    IF \E i \in DOMAIN task : task[i].out.kind = "raise"
    THEN task[CHOOSE i \in DOMAIN task :
                  /\ task[i].out.kind = "raise"
                  /\ \A j \in 1..(i - 1) : task[j].out.kind = "return"].out
    ELSE Return([i \in DOMAIN task |-> task[i].out.val])

\* [task.result() for task in as_completed(tasks)]: the results in the order
\* of the yields; the first task.result() that raises ends the comprehension.
RECURSIVE Gather(_, _)
Gather(order, task) ==
    IF order = <<>> THEN Return(<<>>)
    ELSE LET first == task[Head(order)].out
             rest == Gather(Tail(order), task)
         IN IF first.kind = "raise" THEN first
            ELSE IF rest.kind = "raise" THEN rest
            ELSE Return(<<first.val>> \o rest.val)

\* Leaving the `with ThreadPoolExecutor` block waits for every task; then
\* the list is returned or the exception of task.result() propagates.
DlReturn ==
    /\ d_pc = "gather"
    /\ \A i \in DOMAIN d_task : d_task[i].st = "done"
    /\ d_res' = Gather(Yielded, d_task)
    /\ d_pc' = "done"
    /\ UNCHANGED <<d_urls, d_k, d_task, d_order, d_head, batchVars, adVars, raceVars, tokVars, verVars, lstVars, secVars, imgVars>>

DlNext == DlCall \/ DlStart \/ DlGet \/ DlAsCompleted \/ DlReturn

(***************************************************************************)
(* FileMeta and the values the caller passes to an adapter.                *)
(***************************************************************************)
Names == {"a", "b"}

Contents == {<<>>, <<5, 6, 7>>}

Id(x) == [t |-> "id", v |-> x]

List(items) == [t |-> "list", items |-> items]

Mapping(items) == [t |-> "mapping", items |-> items]

FileMeta(id, name, parent_ids, raw) ==
    [t |-> "FileMeta", id |-> id, name |-> name, parent_ids |-> parent_ids, raw |-> raw]

\* The objects of a call: "arg" is the FileMeta object the caller passed
\* (None when the call takes none), "new" an object made during the call.
Heap(arg) == ("arg" :> arg)

\* copy.deepcopy(h[r]): a new object with the fields of object r.
deepcopy(h, r) == ("new" :> h[r]) @@ h

\* A FileMeta(...) constructor call: a new object.
New(h, file_meta) == ("new" :> file_meta) @@ h

RECURSIVE SeqOf(_)
SeqOf(S) == IF S = {} THEN <<>> ELSE LET x == CHOOSE y \in S : TRUE
                                     IN <<x>> \o SeqOf(S \ {x})

\* A conversion that gives None for an empty list (`return result or None`).
raw_list_to_file_meta_or_none(metas) ==
    IF metas = <<>> THEN None
    ELSE Mapping([k \in {metas[i].id : i \in DOMAIN metas} |->
                     metas[CHOOSE i \in DOMAIN metas :
                               /\ metas[i].id = k
                               /\ \A j \in DOMAIN metas : metas[j].id = k => j <= i]])

\* IoAdapterBase.raw_list_to_file_meta on the FileMetas of raw_list, in list
\* order: result[file_meta.id] = file_meta, a later entry replacing an
\* earlier one of the same id.
raw_list_to_file_meta(metas) ==
    Mapping([k \in {metas[i].id : i \in DOMAIN metas} |->
                metas[CHOOSE i \in DOMAIN metas :
                          /\ metas[i].id = k
                          /\ \A j \in DOMAIN metas : metas[j].id = k => j <= i]])

(***************************************************************************)
(* IoAdapterPath and IoAdapterCloudPath over a tree of directories and     *)
(* files: fs maps each existing path (a sequence of names, <<>> the root)  *)
(* to its node.  An id is the path's string.                               *)
(***************************************************************************)
Dir == [dir |-> TRUE, data |-> <<>>]

File(data) == [dir |-> FALSE, data |-> data]

OSError(kind) == [t |-> "OSError", kind |-> kind]

is_dir(f, p) == p \in DOMAIN f /\ f[p].dir

parent(p) == IF p = <<>> THEN p ELSE SubSeq(p, 1, Len(p) - 1)

name(p) == IF p = <<>> THEN "" ELSE p[Len(p)]

glob(f, p) == {q \in DOMAIN f : q # <<>> /\ parent(q) = p /\ is_dir(f, p)}

read_bytes(f, p) ==
    IF p \notin DOMAIN f THEN Raise(OSError("FileNotFoundError"))
    ELSE IF f[p].dir THEN Raise(OSError("IsADirectoryError"))
    ELSE Return(Bytes(f[p].data))

write_bytes(f, p, data) ==
    IF is_dir(f, p) THEN [out |-> Raise(OSError("IsADirectoryError")), fs |-> f]
    ELSE IF parent(p) \notin DOMAIN f
         THEN [out |-> Raise(OSError("FileNotFoundError")), fs |-> f]
    ELSE IF ~f[parent(p)].dir
         THEN [out |-> Raise(OSError("NotADirectoryError")), fs |-> f]
    ELSE [out |-> Return(None), fs |-> (p :> File(data)) @@ f]

\* Path.mkdir(parents=True, exist_ok=True)
RECURSIVE mkdir(_, _)
mkdir(f, p) ==
    IF p \in DOMAIN f
    THEN IF f[p].dir THEN [out |-> Return(None), fs |-> f]
         ELSE [out |-> Raise(OSError("FileExistsError")), fs |-> f]
    ELSE IF parent(p) \in DOMAIN f
    THEN IF f[parent(p)].dir THEN [out |-> Return(None), fs |-> (p :> Dir) @@ f]
         ELSE [out |-> Raise(OSError("NotADirectoryError")), fs |-> f]
    ELSE LET up == mkdir(f, parent(p))
         IN IF up.out.kind = "raise" THEN up
            ELSE [out |-> Return(None), fs |-> (p :> Dir) @@ up.fs]

\* raw_meta_to_file_meta(raw_meta: Path)
path_meta(p) == FileMeta(Id(p), name(p), None, None)

fs_list_dir_contents(f, folder_id) ==
    Return(raw_list_to_file_meta(
               [i \in DOMAIN SeqOf(glob(f, folder_id.v)) |->
                   path_meta(SeqOf(glob(f, folder_id.v))[i])]))

fs_get_file_bytes(f, file_id) == read_bytes(f, file_id.v)

fs_get_parent_folders(object_ids) ==
    Return(List([i \in DOMAIN object_ids |-> path_meta(parent(object_ids[i].v))]))

\* An overwrite that sets the id on the caller's object and returns it.
fs_overwrite_file_bytes_in_place(f, folder_id, file_meta, file_bytes) ==
    LET path_file == Append(folder_id.v, file_meta.name)
        w == write_bytes(f, path_file, file_bytes.data)
        h == [Heap(file_meta) EXCEPT !["arg"].id = Id(path_file)]
    IN IF w.out.kind = "raise"
       THEN [out |-> w.out, fs |-> w.fs, heap |-> Heap(file_meta), ref |-> "none"]
       ELSE [out |-> Return(h["arg"]), fs |-> w.fs, heap |-> h, ref |-> "arg"]

\* The name file_meta is rebound to a deep copy of the caller's object, the
\* id is set on the copy and the copy is returned.
fs_overwrite_file_bytes(f, folder_id, file_meta, file_bytes) ==
    LET path_file == Append(folder_id.v, file_meta.name)
        w == write_bytes(f, path_file, file_bytes.data)
        h == [deepcopy(Heap(file_meta), "arg") EXCEPT !["new"].id = Id(path_file)]
    IN IF w.out.kind = "raise"
       THEN [out |-> w.out, fs |-> w.fs, heap |-> Heap(file_meta), ref |-> "none"]
       ELSE [out |-> Return(h["new"]), fs |-> w.fs, heap |-> h, ref |-> "new"]

fs_get_or_create_subfolder(f, parent_folder_id, folder_meta) ==
    LET dir_subfolder == Append(parent_folder_id.v, folder_meta.name)
        m == IF ~is_dir(f, dir_subfolder) THEN mkdir(f, dir_subfolder)
             ELSE [out |-> Return(None), fs |-> f]
        h == New(Heap(folder_meta), path_meta(dir_subfolder))
    IN IF m.out.kind = "raise"
       THEN [out |-> m.out, fs |-> m.fs, heap |-> Heap(folder_meta), ref |-> "none"]
       ELSE [out |-> Return(h["new"]), fs |-> m.fs, heap |-> h, ref |-> "new"]

\* The caller's inputs for the path variants.
FsFolders == {<<>>, <<"a">>}

FsPaths == FsFolders \cup {Append(p, n) : p \in FsFolders, n \in Names}

FsMetas == {FileMeta(i, n, None, None) : i \in {None, Id(<<"b">>)}, n \in Names}

IsFs == variant \in {"path", "cloudpath"}

\* Whether call o follows up the call before it (prev, which ended with
\* out): a find-or-create repeated with the same arguments, or a read of the
\* file that a write has just returned.
FollowsUp(prev, out, o) ==
    /\ prev # None
    /\ out.kind = "return"
    /\ \/ /\ prev.name = "get_or_create_subfolder"
          /\ o.name = "get_or_create_subfolder"
          /\ o.parent_folder_id = prev.parent_folder_id
          /\ o.folder_meta = prev.folder_meta
       \/ /\ prev.name = "overwrite_file_bytes"
          /\ o.name = "get_file_bytes"
          /\ o.file_id = out.val.id

\* The history kept for a call o: the call before it and its outcome, when
\* o follows it up.
Kept(prev, out, o) ==
    IF FollowsUp(prev, out, o) THEN [op |-> prev, ret |-> out] ELSE None

\* A call of a path variant runs to its end in one step: op and ret are the
\* call and its outcome, last what is kept of the call before it, created
\* the number of nodes the call added to the tree.
FsCall(o, res) ==
    /\ IsFs
    /\ pc = "idle"
    /\ op' = o
    /\ ret' = res.out
    /\ last' = Kept(op, ret, o)
    /\ fs' = res.fs
    /\ heap' = res.heap
    /\ ref' = res.ref
    /\ created' = Cardinality(DOMAIN res.fs) - Cardinality(DOMAIN fs)
    /\ UNCHANGED <<variant, drive, pc, retry, flt, tmp, batchVars, dlVars, raceVars, tokVars, verVars, lstVars, secVars, imgVars>>

FsListDirContents ==
    \E folder \in FsPaths :
        FsCall([name |-> "list_dir_contents", folder_id |-> Id(folder)],
               [out |-> fs_list_dir_contents(fs, Id(folder)), fs |-> fs,
                heap |-> Heap(None), ref |-> "none"])

FsGetFileBytes ==
    \E p \in FsPaths :
        FsCall([name |-> "get_file_bytes", file_id |-> Id(p)],
               [out |-> fs_get_file_bytes(fs, Id(p)), fs |-> fs,
                heap |-> Heap(None), ref |-> "none"])

FsGetParentFolders ==
    \E p \in FsPaths :
        FsCall([name |-> "get_parent_folders", object_ids |-> <<Id(p)>>],
               [out |-> fs_get_parent_folders(<<Id(p)>>), fs |-> fs,
                heap |-> Heap(None), ref |-> "none"])

FsOverwriteFileBytes ==
    \E folder \in FsFolders, m \in FsMetas, data \in Contents :
        FsCall([name |-> "overwrite_file_bytes", folder_id |-> Id(folder),
                file_meta |-> m, file_bytes |-> Bytes(data)],
               fs_overwrite_file_bytes(fs, Id(folder), m, Bytes(data)))

FsGetOrCreateSubfolder ==
    \E folder \in FsFolders, m \in {x \in FsMetas : x.id = None} :
        FsCall([name |-> "get_or_create_subfolder", parent_folder_id |-> Id(folder),
                folder_meta |-> m],
               fs_get_or_create_subfolder(fs, Id(folder), m))

FsNext ==
    \/ FsListDirContents
    \/ FsGetFileBytes
    \/ FsGetParentFolders
    \/ FsOverwriteFileBytes
    \/ FsGetOrCreateSubfolder

(***************************************************************************)
(* IoAdapterGdrive over a drive: drive maps each object id (ids are given  *)
(* out in order, 0 is the root folder) to the object.                      *)
(***************************************************************************)
Root == [name |-> "root", parents |-> <<>>, folder |-> TRUE, trashed |-> FALSE,
         data |-> <<>>]

Folder(nm, parents) ==
    [name |-> nm, parents |-> parents, folder |-> TRUE, trashed |-> FALSE, data |-> <<>>]

Blob(nm, parents, data) ==
    [name |-> nm, parents |-> parents, folder |-> FALSE, trashed |-> FALSE, data |-> data]

NewId(d) == Cardinality(DOMAIN d)

\* The provider's dict for object i with the keys of `has`.
Raw(d, i, has) == Dict(has, i, d[i].name, d[i].parents)

ListDict(files) == [t |-> "dict", has |-> {"files"}, files |-> files]

BackendError == HttpError("backendError")

Faults == {RateLimited, BackendError}

\* raw_meta_to_file_meta(raw_meta: dict): raw_meta['id'] and raw_meta['name']
\* must be there, raw_meta.get('parents', []) need not.
raw_meta_to_file_meta(raw) ==
    IF raw.t = "None" THEN Raise([t |-> "TypeError"])
    ELSE IF ~({"id", "name"} \subseteq raw.has) THEN Raise([t |-> "KeyError"])
    ELSE Return(FileMeta(Id(raw.id), raw.name,
                         List(IF "parents" \in raw.has THEN raw.parents ELSE <<>>),
                         raw))

\* [self.raw_meta_to_file_meta(r) for r in raw_results]
RECURSIVE raw_metas_to_file_metas(_)
raw_metas_to_file_metas(raws) ==
    IF raws = <<>> THEN Return(<<>>)
    ELSE LET m == raw_meta_to_file_meta(Head(raws))
             rest == raw_metas_to_file_metas(Tail(raws))
         IN IF m.kind = "raise" THEN m
            ELSE IF rest.kind = "raise" THEN rest
            ELSE Return(<<m.val>> \o rest.val)

\* A query that leaves out `trashed=false`.
MatchesTrashedToo(d, folder, named, nm, folders_only) ==
    {i \in DOMAIN d : /\ folder \in Range(d[i].parents)
                      /\ (named => d[i].name = nm)
                      /\ (folders_only => d[i].folder)}

\* The objects a files().list query matches: `'<folder>' in parents and
\* trashed=false`, with `name='<nm>'` when named, and the folder mimeType
\* when folders_only.
Matches(d, folder, named, nm, folders_only) ==
    {i \in DOMAIN d : /\ folder \in Range(d[i].parents)
                      /\ ~d[i].trashed
                      /\ (named => d[i].name = nm)
                      /\ (folders_only => d[i].folder)}

\* files().get(fileId, fields): the answers the provider can give.  With
\* fields='parents' an object without parents is reported as an empty dict
\* or as a dict with an empty list.
FilesGet(d, i, fields) ==
    IF i \notin DOMAIN d THEN {[resp |-> None, exc |-> NotFound]}
    ELSE IF fields = "parents"
    THEN IF d[i].parents = <<>>
         THEN {[resp |-> Raw(d, i, {}), exc |-> None],
               [resp |-> Raw(d, i, {"parents"}), exc |-> None]}
         ELSE {[resp |-> Raw(d, i, {"parents"}), exc |-> None]}
    ELSE {[resp |-> Raw(d, i, {"id", "name"}), exc |-> None]}

\* files().list(q, fields='... files(id, name, parents)') for a name in a
\* folder: the matches in an order of the provider's choosing.
FilesList(d, folder, nm, folders_only) ==
    LET found == Matches(d, folder, TRUE, nm, folders_only)
        Listing(order) ==
            ListDict([k \in DOMAIN order |-> Raw(d, order[k], {"id", "name", "parents"})])
    IN IF found = {} THEN {[resp |-> ListDict(<<>>), exc |-> None]}
       ELSE {[resp |-> Listing(<<first>> \o SeqOf(found \ {first})), exc |-> None] :
                first \in found}

\* MediaIoBaseDownload: the content arrives in chunks of ChunkSize bytes that
\* are written one after the other to the buffer, which is then read back.
RECURSIVE Chunks(_)
Chunks(data) ==
    IF Len(data) <= ChunkSize THEN <<data>>
    ELSE <<SubSeq(data, 1, ChunkSize)>> \o Chunks(SubSeq(data, ChunkSize + 1, Len(data)))

RECURSIVE Reassemble(_)
Reassemble(chunks) ==
    IF chunks = <<>> THEN <<>> ELSE Head(chunks) \o Reassemble(Tail(chunks))

\* files().get_media(fileId) downloaded chunk by chunk.
Download(d, i) ==
    IF i \notin DOMAIN d THEN Raise(NotFound)
    ELSE IF d[i].folder THEN Raise(HttpError("fileNotDownloadable"))
    ELSE Return(Bytes(Reassemble(Chunks(d[i].data))))

\* A create that hands back an object of the same name, kind and parents
\* when the drive already holds one.
FilesCreateIfAbsent(d, obj) ==
    LET same == {i \in DOMAIN d : /\ d[i].name = obj.name
                                  /\ d[i].parents = obj.parents
                                  /\ d[i].folder = obj.folder}
    IN IF \E k \in DOMAIN obj.parents :
              obj.parents[k] \notin DOMAIN d \/ ~d[obj.parents[k]].folder
       THEN [out |-> Raise(NotFound), drive |-> d]
       ELSE IF same # {}
       THEN [out |-> Return(Dict({"id", "name"}, CHOOSE i \in same : TRUE, obj.name, <<>>)),
             drive |-> d]
       ELSE [out |-> Return(Dict({"id", "name"}, NewId(d), obj.name, <<>>)),
             drive |-> (NewId(d) :> obj) @@ d]

\* files().create(body, media_body): a new object under the parent.
FilesCreate(d, obj) ==
    IF \E k \in DOMAIN obj.parents :
           obj.parents[k] \notin DOMAIN d \/ ~d[obj.parents[k]].folder
    THEN [out |-> Raise(NotFound), drive |-> d]
    ELSE [out |-> Return(Dict({"id", "name"}, NewId(d), obj.name, <<>>)),
          drive |-> (NewId(d) :> obj) @@ d]

\* files().update(fileId, body={'name': ...}, media_body)
FilesUpdate(d, i, nm, data) ==
    IF i \notin DOMAIN d THEN [out |-> Raise(NotFound), drive |-> d]
    ELSE IF d[i].folder THEN [out |-> Raise(HttpError("badRequest")), drive |-> d]
    ELSE [out |-> Return(Dict({"id", "name"}, i, nm, <<>>)),
          drive |-> [d EXCEPT ![i].name = nm, ![i].data = data]]

(***************************************************************************)
(* The methods of IoAdapterGdrive, one attempt at a time.  An attempt is   *)
(* [att, drive, flt]: the outcome of the retry-wrapped function, the drive *)
(* after it and the provider faults that were met, `faulty` being the      *)
(* faults the provider may still answer with.                              *)
(***************************************************************************)
Attempt(att, d, f) == [att |-> att, drive |-> d, flt |-> f]

\* The provider hands out a listing in pages of PageSize files, each but the
\* last with a nextPageToken.
RECURSIVE Pages(_)
Pages(files) ==
    IF Len(files) <= PageSize THEN <<files>>
    ELSE <<SubSeq(files, 1, PageSize)>> \o Pages(SubSeq(files, PageSize + 1, Len(files)))

\* list_gdrive(q="'<folder_id>' in parents and trashed=false"): the loop
\* extends file_list with the files of every page.
list_gdrive(d, folder_id, faulty) ==
    LET found == Reassemble(Pages(SeqOf(Matches(d, folder_id.v, FALSE, "", FALSE))))
        metas == [k \in DOMAIN found |->
                     raw_meta_to_file_meta(Raw(d, found[k], {"id", "name"})).val]
    IN {Attempt(Return(raw_list_to_file_meta(metas)), d, <<>>)}
       \cup {Attempt(Raise(f), d, <<f>>) : f \in faulty}

\* The try/except of get_file_bytes around a download of outcome dl: an
\* exception is handed to raise_if_temporary_exception and, when that does
\* not raise, the function falls off its end.
get_file_bytes_body(dl) ==
    IF dl.kind = "return" THEN dl
    ELSE LET r == raise_if_temporary_exception(dl.exc)
         IN IF r.kind = "raise" THEN r ELSE Return(None)

get_file_bytes(d, file_id, faulty) ==
    {Attempt(get_file_bytes_body(Download(d, file_id.v)), d, <<>>)}
    \cup {Attempt(get_file_bytes_body(Raise(f)), d, <<f>>) : f \in faulty}

\* The create or update at the end of overwrite_file_bytes, for the file_id
\* the lookup left (None: create under folder_id).
overwrite_upload(d, file_id, folder_id, file_meta, file_bytes, faulty) ==
    LET w == IF file_id = None
             THEN FilesCreate(d, Blob(file_meta.name, <<folder_id.v>>, file_bytes.data))
             ELSE FilesUpdate(d, file_id.v, file_meta.name, file_bytes.data)
    IN {Attempt(IF w.out.kind = "raise" THEN w.out ELSE raw_meta_to_file_meta(w.out.val),
                w.drive, <<>>)}
       \cup {Attempt(Raise(f), d, <<f>>) : f \in faulty}

overwrite_file_bytes(d, folder_id, file_meta, file_bytes, faulty) ==
    IF file_meta.id = None
    THEN LET fl == Matches(d, folder_id.v, TRUE, file_meta.name, FALSE)
         IN {Attempt(Raise(f), d, <<f>>) : f \in faulty}
            \cup UNION {overwrite_upload(d, file_id, folder_id, file_meta, file_bytes, faulty) :
                           file_id \in IF fl = {} THEN {None} ELSE {Id(i) : i \in fl}}
    ELSE overwrite_upload(d, file_meta.id, folder_id, file_meta, file_bytes, faulty)

create_subfolder(d, parent_folder_id, folder_meta, faulty) ==
    LET c == FilesCreate(d, Folder(folder_meta.name, <<parent_folder_id.v>>))
    IN {Attempt(IF c.out.kind = "raise" THEN c.out ELSE raw_meta_to_file_meta(c.out.val),
                c.drive, <<>>)}
       \cup {Attempt(Raise(f), d, <<f>>) : f \in faulty}

\* The results batch.execute() can hand to the callback when request k can
\* be answered by any of answers[k] or, within the budget, by a fault.
BatchResults(answers, faulty, budget) ==
    LET fa == {[resp |-> None, exc |-> f] : f \in faulty}
    IN {outs \in [DOMAIN answers -> UNION Range(answers) \cup fa] :
           /\ \A k \in DOMAIN answers : outs[k] \in answers[k] \cup fa
           /\ Cardinality({k \in DOMAIN answers : outs[k] \in fa}) <= budget}

FaultsOf(outs) ==
    LET hit == SelectSeq(outs, LAMBDA o : o.exc \in Faults)
    IN [k \in DOMAIN hit |-> hit[k].exc]

\* One attempt of gapi_batch_wrapper on the requests answered by answers.
gapi_batch_wrapper(d, answers, faulty, budget) ==
    {Attempt(gapi_batch_body(outs), d, FaultsOf(outs)) :
        outs \in BatchResults(answers, faulty, budget)}

\* get_metas: files().get(fileId=object_id) for every id, in one batch.
get_metas_requests(d, object_ids) ==
    [k \in DOMAIN object_ids |-> FilesGet(d, object_ids[k].v, "default")]

get_metas_result(att) ==
    IF att.kind = "raise" THEN att
    ELSE LET ms == raw_metas_to_file_metas(att.val)
         IN IF ms.kind = "raise" THEN ms ELSE Return(List(ms.val))

\* get_parent_folders: files().get(fileId=object_id, fields='parents').
get_parent_folders_requests(d, object_ids) ==
    [k \in DOMAIN object_ids |-> FilesGet(d, object_ids[k].v, "parents")]

IntegrityError ==
    Exception(<<Str("Every file must have exactly one parent folder location")>>)

\* The loop over response_objects: response.get('parents', []) must have
\* one element; the first response that is None or has another number of
\* parents ends the call.  Otherwise the ids of the parents.
RECURSIVE get_parent_folders_check(_)
get_parent_folders_check(response_objects) ==
    IF response_objects = <<>> THEN Return(<<>>)
    ELSE LET response == Head(response_objects)
             rest == get_parent_folders_check(Tail(response_objects))
         IN IF response.t = "None" THEN Raise([t |-> "AttributeError"])
            ELSE IF Len(IF "parents" \in response.has THEN response.parents ELSE <<>>) # 1
            THEN Raise(IntegrityError)
            ELSE IF rest.kind = "raise" THEN rest
            ELSE Return(<<Id(response.parents[1])>> \o rest.val)

\* A lookup that never finds the subfolder.
get_subfolder_never_found(att) ==
    IF att.kind = "raise" THEN att ELSE Return(None)

\* get_subfolder: get_object_in_folder_ids([parent], [folder_meta], True)[0]
\* from the response of the one list request: files[0] or None.
get_subfolder_result(att) ==
    IF att.kind = "raise" THEN att
    ELSE LET response == att.val[1]
         IN IF response.t = "None" THEN Raise([t |-> "AttributeError"])
            ELSE IF Len(response.files) > 0 THEN raw_meta_to_file_meta(response.files[1])
            ELSE Return(None)

(***************************************************************************)
(* The caller of an IoAdapterGdrive: one call at a time.                   *)
(***************************************************************************)
GdIds == 0..(MaxObjs - 1)

GdFolders == {0, 1}

GdMetas == {FileMeta(i, n, None, None) : i \in {None, Id(MaxObjs - 1)}, n \in Names}

GdIdLists == {<<i>> : i \in GdIds} \cup {<<i, j>> : i, j \in GdIds}

GdReads ==
    {[name |-> "list_dir_contents", folder_id |-> Id(i)] : i \in GdIds}
    \cup {[name |-> "get_file_bytes", file_id |-> Id(i)] : i \in GdIds}
    \cup {[name |-> "get_metas", object_ids |-> [k \in DOMAIN l |-> Id(l[k])]] : l \in GdIdLists}
    \cup {[name |-> "get_parent_folders", object_ids |-> [k \in DOMAIN l |-> Id(l[k])]] :
             l \in GdIdLists}

GdWrites ==
    {[name |-> "overwrite_file_bytes", folder_id |-> Id(i), file_meta |-> m,
      file_bytes |-> Bytes(c)] : i \in GdFolders, m \in GdMetas, c \in Contents}
    \cup {[name |-> nm, parent_folder_id |-> Id(i), folder_meta |-> m] :
             nm \in {"get_or_create_subfolder", "create_subfolder"},
             i \in GdFolders, m \in {x \in GdMetas : x.id = None}}

IsGdrive == variant = "gdrive"

faulty == IF Len(flt) < MaxFaults THEN Faults ELSE {}

\* Whether call o makes a new object when the provider answers without
\* fault.
MayCreate(d, o) ==
    \/ o.name = "create_subfolder"
    \/ /\ o.name = "get_or_create_subfolder"
       /\ Matches(d, o.parent_folder_id.v, TRUE, o.folder_meta.name, TRUE) = {}
    \/ /\ o.name = "overwrite_file_bytes"
       /\ o.file_meta.id = None
       /\ Matches(d, o.folder_id.v, TRUE, o.file_meta.name, FALSE) = {}

\* The FileMeta object that call o passes, None when it passes none.
MetaArg(o) ==
    IF o.name = "overwrite_file_bytes" THEN o.file_meta
    ELSE IF o.name \in {"get_or_create_subfolder", "create_subfolder"} THEN o.folder_meta
    ELSE None

\* The caller makes call o; a call that makes a new object is made while
\* the drive has room for one.
GdCall ==
    /\ IsGdrive
    /\ pc = "idle"
    /\ \E o \in GdReads \cup {w \in GdWrites : MayCreate(drive, w) => NewId(drive) < MaxObjs} :
         /\ op' = o
         /\ last' = Kept(op, ret, o)
         /\ pc' = IF o.name = "create_subfolder" THEN "create" ELSE "run"
         /\ heap' = Heap(MetaArg(o))
    /\ ret' = Return(None)
    /\ retry' = RetryStart
    /\ created' = 0
    /\ flt' = <<>>
    /\ tmp' = None
    /\ ref' = "none"
    /\ UNCHANGED <<variant, fs, drive, batchVars, dlVars, raceVars, tokVars, verVars, lstVars, secVars, imgVars>>

\* The retry wrapper's turn after attempt a of the function the call is in:
\* it goes on to another attempt, or it is left.  The methods of the drive
\* variant read the caller's FileMeta only; the FileMeta a call returns is
\* one that raw_meta_to_file_meta has made.  When it is left with a
\* return and the method has more to do (next is not "idle"), the method goes
\* on at next with nexttmp; otherwise the call ends with out.
Step(a, out, next, nexttmp) ==
    LET ra == RetryAfter(retry, a.att)
    IN /\ drive' = a.drive
       /\ created' = created + NewId(a.drive) - NewId(drive)
       /\ flt' = flt \o a.flt
       /\ IF ~ra.done
          THEN /\ retry' = ra.rs
               /\ UNCHANGED <<pc, ret, tmp, heap, ref>>
          ELSE IF a.att.kind = "return" /\ out.kind = "return" /\ next # "idle"
          THEN /\ retry' = RetryStart
               /\ pc' = next
               /\ tmp' = nexttmp
               /\ UNCHANGED <<ret, heap, ref>>
          ELSE /\ retry' = ra.rs
               /\ pc' = "idle"
               /\ ret' = out
               /\ IF out.kind = "return" /\ out.val.t = "FileMeta"
                  THEN heap' = New(heap, out.val) /\ ref' = "new"
                  ELSE UNCHANGED <<heap, ref>>
               /\ UNCHANGED tmp
       /\ UNCHANGED <<variant, fs, op, last, batchVars, dlVars, raceVars, tokVars, verVars, lstVars, secVars, imgVars>>

GdListDirContents ==
    /\ IsGdrive /\ pc = "run" /\ op.name = "list_dir_contents"
    /\ \E a \in list_gdrive(drive, op.folder_id, faulty) : Step(a, a.att, "idle", None)

GdGetFileBytes ==
    /\ IsGdrive /\ pc = "run" /\ op.name = "get_file_bytes"
    /\ \E a \in get_file_bytes(drive, op.file_id, faulty) : Step(a, a.att, "idle", None)

GdOverwriteFileBytes ==
    /\ IsGdrive /\ pc = "run" /\ op.name = "overwrite_file_bytes"
    /\ \E a \in overwrite_file_bytes(drive, op.folder_id, op.file_meta, op.file_bytes, faulty) :
         Step(a, a.att, "idle", None)

GdGetMetas ==
    /\ IsGdrive /\ pc = "run" /\ op.name = "get_metas"
    /\ \E a \in gapi_batch_wrapper(drive, get_metas_requests(drive, op.object_ids),
                                   faulty, MaxFaults - Len(flt)) :
         Step(a, get_metas_result(a.att), "idle", None)

\* get_parent_folders up to its call of get_metas.
GdGetParentFolders ==
    /\ IsGdrive /\ pc = "run" /\ op.name = "get_parent_folders"
    /\ \E a \in gapi_batch_wrapper(drive, get_parent_folders_requests(drive, op.object_ids),
                                   faulty, MaxFaults - Len(flt)) :
         LET checked == IF a.att.kind = "raise" THEN a.att
                        ELSE get_parent_folders_check(a.att.val)
         IN Step(a, checked, "metas", IF checked.kind = "return" THEN checked.val ELSE None)

\* The get_metas call that ends get_parent_folders.
GdGetParentFoldersMetas ==
    /\ IsGdrive /\ pc = "metas"
    /\ \E a \in gapi_batch_wrapper(drive, get_metas_requests(drive, tmp),
                                   faulty, MaxFaults - Len(flt)) :
         Step(a, get_metas_result(a.att), "idle", None)

\* get_or_create_subfolder up to its call of create_subfolder.
GdGetSubfolder ==
    /\ IsGdrive /\ pc = "run" /\ op.name = "get_or_create_subfolder"
    /\ \E a \in gapi_batch_wrapper(
                    drive,
                    <<FilesList(drive, op.parent_folder_id.v, op.folder_meta.name, TRUE)>>,
                    faulty, MaxFaults - Len(flt)) :
         LET subfolder_meta == get_subfolder_result(a.att)
         IN Step(a, subfolder_meta,
                 IF subfolder_meta.kind = "return" /\ subfolder_meta.val = None
                 THEN "create" ELSE "idle",
                 None)

\* create_subfolder, called by the caller or by get_or_create_subfolder.
GdCreateSubfolder ==
    /\ IsGdrive /\ pc = "create"
    /\ \E a \in create_subfolder(drive, op.parent_folder_id, op.folder_meta, faulty) :
         Step(a, a.att, "idle", None)

GdNext ==
    \/ GdCall
    \/ GdListDirContents
    \/ GdGetFileBytes
    \/ GdOverwriteFileBytes
    \/ GdGetMetas
    \/ GdGetParentFolders
    \/ GdGetParentFoldersMetas
    \/ GdGetSubfolder
    \/ GdCreateSubfolder

\* The drives an adapter can start on: the root alone, the root with a
\* folder and a file that has two parents (made before the provider's
\* single-parent rule), or the root with a folder and a file in the trash.
GdStarts ==
    {(0 :> Root),
     (0 :> Root) @@ (1 :> Folder("a", <<0>>)) @@ (2 :> Blob("b", <<0, 1>>, <<5, 6, 7>>)),
     (0 :> Root) @@ (1 :> Folder("a", <<0>>))
                 @@ (2 :> [Blob("b", <<0>>, <<5, 6, 7>>) EXCEPT !.trashed = TRUE])}

(***************************************************************************)
(* Two callers of get_or_create_subfolder on one IoAdapterGdrive: each     *)
(* provider call (the lookup batch, the create) is a step of its caller,   *)
(* and the steps of the two callers interleave freely.                     *)
(***************************************************************************)
Callers == {1, 2}

RaceFaulty == IF Len(r_flt) < MaxFaults THEN Faults ELSE {}

\* The callers other than c that are inside a call.
Busy(c) == {k \in Callers \ {c} : r_pc[k] \in {"run", "create"}}

\* Caller c calls get_or_create_subfolder; a call that can make a folder is
\* made while the drive has room for it and for the calls in progress.
RaceCall ==
    \E c \in Callers :
        /\ r_pc[c] \in {"idle", "done"}
        /\ \E i \in GdFolders, m \in {x \in GdMetas : x.id = None} :
             LET o == [name |-> "get_or_create_subfolder", parent_folder_id |-> Id(i),
                       folder_meta |-> m]
             IN /\ MayCreate(r_drive, o) =>
                       NewId(r_drive) + Cardinality(Busy(c)) < MaxObjs
                /\ r_op' = [r_op EXCEPT ![c] = o]
        /\ r_pc' = [r_pc EXCEPT ![c] = "run"]
        /\ r_retry' = [r_retry EXCEPT ![c] = RetryStart]
        /\ r_ret' = [r_ret EXCEPT ![c] = Return(None)]
        /\ r_look' = [r_look EXCEPT ![c] = None]
        /\ UNCHANGED <<r_drive, r_flt, batchVars, dlVars, adVars, tokVars, verVars, lstVars, secVars, imgVars>>

\* get_subfolder of caller c: one attempt of the lookup batch.  A lookup
\* that finds nothing leaves the caller before its create_subfolder, r_look
\* recording the size of the drive that was looked at.
RaceGetSubfolder ==
    \E c \in Callers :
        /\ r_pc[c] = "run"
        /\ \E a \in gapi_batch_wrapper(
                        r_drive,
                        <<FilesList(r_drive, r_op[c].parent_folder_id.v,
                                    r_op[c].folder_meta.name, TRUE)>>,
                        RaceFaulty, MaxFaults - Len(r_flt)) :
             LET subfolder_meta == get_subfolder_result(a.att)
                 ra == RetryAfter(r_retry[c], a.att)
                 absent == subfolder_meta.kind = "return" /\ subfolder_meta.val = None
             IN /\ r_flt' = r_flt \o a.flt
                /\ r_retry' = [r_retry EXCEPT ![c] =
                                   IF ra.done /\ absent THEN RetryStart ELSE ra.rs]
                /\ r_pc' = [r_pc EXCEPT ![c] =
                                IF ~ra.done THEN "run"
                                ELSE IF absent THEN "create" ELSE "done"]
                /\ r_ret' = [r_ret EXCEPT ![c] =
                                 IF ra.done /\ ~absent THEN subfolder_meta ELSE @]
                /\ r_look' = [r_look EXCEPT ![c] =
                                  IF ra.done /\ absent THEN PyInt(NewId(r_drive)) ELSE @]
        /\ UNCHANGED <<r_drive, r_op, batchVars, dlVars, adVars, tokVars, verVars, lstVars, secVars, imgVars>>

\* create_subfolder of caller c, after its lookup found nothing.
RaceCreateSubfolder ==
    \E c \in Callers :
        /\ r_pc[c] = "create"
        /\ \E a \in create_subfolder(r_drive, r_op[c].parent_folder_id,
                                      r_op[c].folder_meta, RaceFaulty) :
             /\ r_drive' = a.drive
             /\ r_flt' = r_flt \o a.flt
             /\ r_retry' = [r_retry EXCEPT ![c] = RetryAfter(r_retry[c], a.att).rs]
             /\ r_ret' = [r_ret EXCEPT ![c] = a.att]
        /\ r_pc' = [r_pc EXCEPT ![c] = "done"]
        /\ UNCHANGED <<r_op, r_look, batchVars, dlVars, adVars, tokVars, verVars, lstVars, secVars, imgVars>>

RaceNext == RaceCall \/ RaceGetSubfolder \/ RaceCreateSubfolder

(***************************************************************************)
(* auth.py: TokenProvider and TokenProviderRefresh.                        *)
(***************************************************************************)
\* margin_sec when the constructor is given none: 60 * 5.
DefaultMarginSec == 300

\* datetime.timedelta(x) is a span of x days; the clock of the model counts
\* seconds.
SecondsPerDay == 86400

\* The number of get_token calls of a run.
MaxCalls == 3

\* The margin_sec the constructor is given: the default, a short one, and
\* no margin at all.
MarginSecs == {DefaultMarginSec, 2, 0}

\* A stand-in for should_refresh that refreshes only while no expiry is
\* known.
should_refresh_first_only(dt_expires, margin_sec, now) == dt_expires = None

\* A stand-in for on_new_expiry that falls back to the default margin when
\* the token outlives the margin.
on_new_expiry_default_margin(margin_sec, expires_in, now) ==
    [dt_expires |-> PyInt(now + expires_in),
     margin_sec |-> IF expires_in < margin_sec THEN expires_in \div 2 ELSE DefaultMarginSec]

\* The lifetimes in seconds that a token response can report (even numbers,
\* so that expires_in / 2 is whole): shorter than the default margin, an
\* hour, and longer than DefaultMarginSec days.
ExpiresIns == {2, 3600, 30000000}

\* The seconds that can pass between two get_token calls.
Delays == {1, 3400, 4000}

\* A token response of the identity provider: tokens are numbered in the
\* order in which they are issued.
TokenResponse(n, expires_in) == [t |-> "dict", id_token |-> n, expires_in |-> expires_in]

\* TokenProviderBase.should_refresh at time now.
should_refresh(dt_expires, margin_sec, now) ==
    dt_expires = None \/ dt_expires.v < now + margin_sec * SecondsPerDay

\* TokenProviderBase.on_new_expiry(expires_in) at time now: the fields
\* dt_expires and margin_sec after it.
on_new_expiry(margin_sec, expires_in, now) ==
    [dt_expires |-> PyInt(now + expires_in),
     margin_sec |-> IF expires_in < margin_sec THEN expires_in \div 2 ELSE margin_sec]

\* get_token of either class, called delay seconds after the call before
\* it, the identity provider answering a refresh with a token that lives
\* expires_in seconds.  t_call records the time of the call, the fields at
\* its start and whether it refreshed.
GetToken(delay, expires_in) ==
    LET now == t_now + delay
        refresh == should_refresh(t_dt_expires, t_margin_sec, now)
        response == IF refresh THEN TokenResponse(t_issued + 1, expires_in)
                    ELSE t_token_response
        expiry == IF refresh THEN on_new_expiry(t_margin_sec, response.expires_in, now)
                  ELSE [dt_expires |-> t_dt_expires, margin_sec |-> t_margin_sec]
    IN /\ t_calls < MaxCalls
       /\ t_calls' = t_calls + 1
       /\ t_now' = now
       /\ t_token_response' = response
       /\ t_issued' = IF refresh THEN t_issued + 1 ELSE t_issued
       /\ t_dt_expires' = expiry.dt_expires
       /\ t_margin_sec' = expiry.margin_sec
       /\ t_ret' = Return(PyInt(response.id_token))
       /\ t_call' = [at |-> now, dt_expires |-> t_dt_expires, margin_sec |-> t_margin_sec,
                     token_response |-> t_token_response, refreshed |-> refresh]
       /\ UNCHANGED <<t_kind, batchVars, dlVars, adVars, raceVars, verVars, lstVars, secVars, imgVars>>

\* TokenProvider.get_token: callback_token_response, callback_expires_in
\* and callback_id_token are the identity provider's.
TokenProviderGetToken ==
    /\ t_kind = "TokenProvider"
    /\ \E delay \in Delays, expires_in \in ExpiresIns : GetToken(delay, expires_in)

\* TokenProviderRefresh.get_token: use_refresh_token asks
\* google_sign_in_with_refresh_token.
TokenProviderRefreshGetToken ==
    /\ t_kind = "TokenProviderRefresh"
    /\ \E delay \in Delays, expires_in \in ExpiresIns : GetToken(delay, expires_in)

TokenNext == TokenProviderGetToken \/ TokenProviderRefreshGetToken

(***************************************************************************)
(* auth.firebase_verify_id_token(id_token, n_retries).                     *)
(***************************************************************************)
\* The largest n_retries a caller passes.
MaxRetries == 3

\* The n_retries of a call: none, the default of 3 among them.
NRetries == {-1} \cup (0..MaxRetries)

\* An exception of firebase_admin.auth.verify_id_token; msg is str(e), as
\* the sequence of its words.
VerifyError(msg) == [t |-> "VerifyError", msg |-> msg]

\* The claims of a verified id-token.
DecodedIdToken == [t |-> "dict", sub |-> "user"]

retry_strings ==
    {<<"Token", "used", "too", "early,">>, <<"('Connection", "aborted.',">>}

\* What one call of the verifier can do: return the decoded token, or
\* raise with one of these messages.
VerifyOutcomes ==
    {Return(DecodedIdToken),
     Raise(VerifyError(<<"Token", "used", "too", "early,", "1", "<", "2">>)),
     Raise(VerifyError(<<"('Connection", "aborted.',", "RemoteDisconnected)">>)),
     Raise(VerifyError(<<"Token", "used", "too", "early">>)),
     Raise(VerifyError(<<"Token", "expired,", "2", "<", "1">>)),
     Raise(VerifyError(<<"Connection", "aborted.">>))}

\* str.startswith on the words of a message.
startswith(s, prefix) ==
    Len(s) >= Len(prefix) /\ SubSeq(s, 1, Len(prefix)) = prefix

\* A stand-in for should_retry that retries after every failure.
should_retry_always(e) == TRUE

should_retry(e) == \E retry_str \in retry_strings : startswith(e.msg, retry_str)

\* The call: the loop has not been entered.
VerifyCall ==
    /\ v_pc = "idle"
    /\ \E n_retries \in NRetries :
           /\ v_arg' = n_retries
           /\ v_n_retries' = n_retries
    /\ v_pc' = "while"
    /\ v_log' = <<>>
    /\ v_slept' = 0
    /\ v_ret' = Return(None)
    /\ UNCHANGED <<batchVars, dlVars, adVars, raceVars, tokVars, lstVars, secVars, imgVars>>

\* One pass of the loop body up to the sleep: the verifier is called; its
\* result is returned, or its exception is caught and either ends the loop
\* or costs one retry.
VerifyAttempt ==
    /\ v_pc = "while"
    /\ v_n_retries > 0
    /\ \E out \in VerifyOutcomes :
           /\ v_log' = Append(v_log, out)
           /\ IF out.kind = "return"
              THEN /\ v_ret' = Return(out.val)
                   /\ v_pc' = "done"
                   /\ UNCHANGED v_n_retries
              ELSE IF ~should_retry(out.exc)
                   THEN /\ v_ret' = Return(None)
                        /\ v_pc' = "done"
                        /\ UNCHANGED v_n_retries
                   ELSE /\ v_n_retries' = v_n_retries - 1
                        /\ v_pc' = "sleep"
                        /\ UNCHANGED v_ret
    /\ UNCHANGED <<v_arg, v_slept, batchVars, dlVars, adVars, raceVars, tokVars, lstVars, secVars, imgVars>>

\* time.sleep(1) returns.
VerifySleep ==
    /\ v_pc = "sleep"
    /\ v_slept' = v_slept + 1
    /\ v_pc' = "while"
    /\ UNCHANGED <<v_arg, v_n_retries, v_log, v_ret, batchVars, dlVars, adVars, raceVars,
                   tokVars, lstVars, secVars, imgVars>>

\* The loop condition fails: return None.
VerifyReturnNone ==
    /\ v_pc = "while"
    /\ ~(v_n_retries > 0)
    /\ v_ret' = Return(None)
    /\ v_pc' = "done"
    /\ UNCHANGED <<v_arg, v_n_retries, v_log, v_slept, batchVars, dlVars, adVars, raceVars,
                   tokVars, lstVars, secVars, imgVars>>

VerifyNext == VerifyCall \/ VerifyAttempt \/ VerifySleep \/ VerifyReturnNone

(***************************************************************************)
(* IoAdapterGdrive.list_gdrive, one files().list request at a    *)
(* time.  The listing of the query has l_n files, numbered from 1.         *)
(***************************************************************************)
\* The most files a query matches.
MaxFiles == 4

\* A `fields` mask of files().list: whether it names nextPageToken, and the
\* keys it names inside files(...).
Fields(next, keys) == [t |-> "fields", next |-> next, keys |-> keys]

\* 'nextPageToken, files(id, name)'
DefaultFields == Fields(TRUE, {"id", "name"})

Queries == {"'0' in parents and trashed=false", "sharedWithMe=true and trashed=false"}

\* The keyword arguments of a call: a query, alone or with a fields mask,
\* 'nextPageToken, files(id, name, parents)' or 'files(id, name)'.
Kwargs ==
    {("q" :> Str(q)) : q \in Queries}
    \cup {("q" :> Str(q)) @@ ("fields" :> f) :
              q \in Queries,
              f \in {Fields(TRUE, {"id", "name", "parents"}), Fields(FALSE, {"id", "name"})}}

\* The dict of the provider for file i of the listing.
ListedFile(i, keys) == Dict(keys, i, "f", <<0>>)

\* The provider's response to files().list(fields, pageToken, q) over a
\* listing of n files: a page of PageSize files from the token on, and the
\* token of the next page when there is one and the mask names it.
FilesListPage(n, fields, pageToken) ==
    LET from == IF pageToken = None THEN 1 ELSE pageToken.v
        upto == IF from + PageSize - 1 < n THEN from + PageSize - 1 ELSE n
    IN [t |-> "dict",
        files |-> [k \in 1..(upto - from + 1) |-> ListedFile(from + k - 1, fields.keys)],
        nextPageToken |-> IF fields.next /\ upto < n THEN PyInt(upto + 1) ELSE None]

\* kwargs.pop('fields', default): the value and the kwargs left.
pop_fields(kwargs, default) ==
    [value |-> IF "fields" \in DOMAIN kwargs THEN kwargs["fields"] ELSE default,
     kwargs |-> [k \in DOMAIN kwargs \ {"fields"} |-> kwargs[k]]]

\* list_gdrive is called, the query matching n files.
ListCall ==
    /\ l_pc = "idle"
    /\ l_n' \in 0..MaxFiles
    /\ l_kwargs' \in Kwargs
    /\ l_page_token' = None
    /\ l_file_list' = <<>>
    /\ l_reqs' = <<>>
    /\ l_ret' = Return(None)
    /\ l_pc' = "while"
    /\ UNCHANGED <<batchVars, dlVars, adVars, raceVars, tokVars, verVars, secVars, imgVars>>

\* One pass of the loop: the request, and with its response the extension
\* of file_list and either the next token or the return.  l_reqs lists the
\* requests made, each with the files and the token its response gave.
ListPage ==
    /\ l_pc = "while"
    /\ LET popped == pop_fields(l_kwargs, DefaultFields)
           fields == popped.value
           response == FilesListPage(l_n, fields, l_page_token)
           file_list == l_file_list \o response.files
           metas == [k \in DOMAIN file_list |-> raw_meta_to_file_meta(file_list[k]).val]
       IN /\ l_kwargs' = popped.kwargs
          /\ l_reqs' = Append(l_reqs, [fields |-> fields, pageToken |-> l_page_token,
                                       q |-> popped.kwargs["q"],
                                       files |-> response.files,
                                       next |-> response.nextPageToken])
          /\ l_file_list' = file_list
          /\ l_page_token' = response.nextPageToken
          /\ IF response.nextPageToken = None
             THEN /\ l_ret' = Return(raw_list_to_file_meta(metas))
                  /\ l_pc' = "done"
             ELSE /\ l_pc' = "while"
                  /\ UNCHANGED l_ret
    /\ UNCHANGED <<l_n, batchVars, dlVars, adVars, raceVars, tokVars, verVars, secVars, imgVars>>

\* A request of the loop fails: execute() raises and list_gdrive with it.
ListPageRaises ==
    /\ l_pc = "while"
    /\ LET popped == pop_fields(l_kwargs, DefaultFields)
       IN /\ l_kwargs' = popped.kwargs
          /\ \E f \in Faults :
                 /\ l_ret' = Raise(f)
                 /\ l_reqs' = Append(l_reqs, [fields |-> popped.value,
                                              pageToken |-> l_page_token,
                                              q |-> popped.kwargs["q"],
                                              files |-> <<>>,
                                              next |-> None])
    /\ l_pc' = "done"
    /\ UNCHANGED <<l_n, l_page_token, l_file_list, batchVars, dlVars, adVars, raceVars,
                   tokVars, verVars, secVars, imgVars>>

ListNext == ListCall \/ ListPage \/ ListPageRaises

(***************************************************************************)
(* secrets_config.SecretsConfigAirtable.load_secrets(reload).  A row of    *)
(* the table is the dict of its non-empty fields, a dict a function from    *)
(* its keys.                                                               *)
(***************************************************************************)
\* The number of load_secrets calls of a run.
MaxLoads == 3

field_key == "key"

field_value == "value"

field_env_var == "env_var"

\* The rows a table can hold: a secret with an environment variable, the
\* same secret with another value, a secret without one, and a row whose
\* key cell is empty.
RowA == (field_key :> "a") @@ (field_value :> "1") @@ (field_env_var :> "A")

RowA2 == (field_key :> "a") @@ (field_value :> "2") @@ (field_env_var :> "A")

RowB == (field_key :> "b") @@ (field_value :> "3")

RowNoKey == (field_value :> "4")

\* What table.all() can give: the rows of the table at the time of the
\* query, or an error of the provider.
TableOutcomes ==
    {Return(<<RowA, RowB>>), Return(<<RowA2>>), Return(<<RowA, RowNoKey>>),
     Raise(HttpError("serviceUnavailable"))}

\* The load_keys of the config: None, or a list of keys.
LoadKeys == {None, List(<<"a">>)}

\* record[f] raises KeyError for a field the row does not have.
HasField(record, f) == f \in DOMAIN record

\* Python truthiness of record.get(f).
GetTruthy(record, f) == HasField(record, f) /\ record[f] # ""

\* A dict comprehension {k(r): v(r) for r in rows if r in chosen}: the
\* last chosen row of a key gives its value.
DictOf(rows, chosen, k, v) ==
    [key \in {rows[i][k] : i \in chosen} |->
        rows[CHOOSE i \in chosen :
                 /\ rows[i][k] = key
                 /\ \A j \in chosen : rows[j][k] = key => j <= i][v]]

\* dict.update: the entries of `other` replace and extend those of d.
update(d, other) == other @@ d

\* A guard that never skips the load.
skip_load_never(is_loaded, reload) == FALSE

\* `if self.is_loaded and not reload: return`
skip_load(is_loaded, reload) == is_loaded /\ ~reload

\* load_secrets(reload) on a config self with the process environment
\* environ, table.all() having the outcome `all` when it is called: the
\* config and the environment after the call, whether the table was
\* queried, and the outcome of the call.
load_secrets(self, environ, reload, all) ==
    IF skip_load(self.is_loaded, reload)
    THEN [self |-> self, environ |-> environ, queried |-> FALSE, out |-> Return(None)]
    ELSE IF all.kind = "raise"
    THEN [self |-> self, environ |-> environ, queried |-> TRUE, out |-> all]
    ELSE LET records == all.val
             rows == DOMAIN records
         IN IF self.load_keys = None /\ \E i \in rows : ~HasField(records[i], field_key)
            THEN [self |-> self, environ |-> environ, queried |-> TRUE,
                  out |-> Raise([t |-> "KeyError"])]
            ELSE LET set_keys ==
                         IF self.load_keys = None
                         THEN {records[i][field_key] : i \in {j \in rows : records[j][field_key] # ""}}
                         ELSE Range(self.load_keys.items)
                 IN IF \E i \in rows :
                           \/ ~HasField(records[i], field_key)
                           \/ /\ records[i][field_key] \in set_keys
                              /\ ~HasField(records[i], field_value)
                    THEN [self |-> self, environ |-> environ, queried |-> TRUE,
                          out |-> Raise([t |-> "KeyError"])]
                    ELSE LET in_keys == {i \in rows : records[i][field_key] \in set_keys}
                             with_env == {i \in in_keys : GetTruthy(records[i], field_env_var)}
                             env_vars == DictOf(records, with_env, field_env_var, field_value)
                         IN [self |-> [self EXCEPT
                                          !.records = DictOf(records, in_keys, field_key, field_value),
                                          !.env_vars = env_vars,
                                          !.is_loaded = TRUE],
                             environ |-> update(environ, env_vars),
                             queried |-> TRUE,
                             out |-> Return(None)]

\* A call of load_secrets.  s_queries counts the table.all() calls; until
\* the next step s_call keeps the argument of the call, the config, the
\* environment and the count as they were at its start, and what the table
\* answered (or would have).
LoadSecrets ==
    /\ s_calls < MaxLoads
    /\ \E reload \in BOOLEAN, all \in TableOutcomes :
           LET r == load_secrets(s_self, s_environ, reload, all)
           IN /\ s_self' = r.self
              /\ s_environ' = r.environ
              /\ s_queries' = s_queries + (IF r.queried THEN 1 ELSE 0)
              /\ s_ret' = r.out
              /\ s_call' = [reload |-> reload, self |-> s_self, environ |-> s_environ,
                            queries |-> s_queries, all |-> all]
    /\ s_calls' = s_calls + 1
    /\ UNCHANGED <<batchVars, dlVars, adVars, raceVars, tokVars, verVars, lstVars, imgVars>>

\* Something else in the process sets an environment variable, between two
\* calls.
SetEnviron ==
    /\ s_calls < MaxLoads
    /\ s_environ # update(s_environ, ("A" :> "0"))
    /\ s_environ' = update(s_environ, ("A" :> "0"))
    /\ s_call' = None
    /\ UNCHANGED <<s_self, s_queries, s_ret, s_calls, batchVars, dlVars, adVars,
                   raceVars, tokVars, verVars, lstVars, imgVars>>

SecretsNext == LoadSecrets \/ SetEnviron

(***************************************************************************)
(* image.calc_resize_dims(image_shape, width, height, downsample_only).    *)
(* For the sizes of the model int(a * (b / float(c))) is the whole part of *)
(* a * b / c, and r_h < r_w compares the two fractions exactly.            *)
(***************************************************************************)
\* The largest height, width and target.
MaxDim == 5

\* A width or height argument: None or a positive integer.
Targets == {None} \cup {PyInt(n) : n \in 1..MaxDim}

\* (w1, h1) before the downsample_only check.
resize_target(h0, w0, width, height) ==
    IF width # None /\ height # None
    THEN IF height.v * w0 < width.v * h0
         THEN [w1 |-> (w0 * height.v) \div h0, h1 |-> height.v]
         ELSE [w1 |-> width.v, h1 |-> (h0 * width.v) \div w0]
    ELSE IF width = None
    THEN [w1 |-> (w0 * height.v) \div h0, h1 |-> height.v]
    ELSE [w1 |-> width.v, h1 |-> (h0 * width.v) \div w0]

\* A check that lets every target through.
keeps_original_never(downsample_only, w1, h1, w0, h0) == FALSE

\* `downsample_only and (w1 >= w0 or h1 >= h0)`
keeps_original(downsample_only, w1, h1, w0, h0) ==
    downsample_only /\ (w1 >= w0 \/ h1 >= h0)

\* The returned (h1, w1).
calc_resize_dims(image_shape, width, height, downsample_only) ==
    LET h0 == image_shape[1]
        w0 == image_shape[2]
        target == resize_target(h0, w0, width, height)
    IN IF keeps_original(downsample_only, target.w1, target.h1, w0, h0)
       THEN <<h0, w0>>
       ELSE <<target.h1, target.w1>>

\* The call returns.
CalcResizeDims ==
    /\ i_pc = "call"
    /\ i_ret' = Return([t |-> "tuple",
                        items |-> calc_resize_dims(i_image_shape, i_width, i_height,
                                                   i_downsample_only)])
    /\ i_pc' = "done"
    /\ UNCHANGED <<i_image_shape, i_width, i_height, i_downsample_only, batchVars, dlVars,
                   adVars, raceVars, tokVars, verVars, lstVars, secVars>>

ImageNext == CalcResizeDims

(***************************************************************************)
(* Specifications.                                                         *)
(***************************************************************************)
\* No call of the batch executor or of the downloader has been made, and the
\* adapter is a local-filesystem one over an empty root directory.
InitIdle ==
    /\ b_pc = "idle"
    /\ b_n = 0
    /\ b_rs = RetryStart
    /\ b_outs = <<>>
    /\ b_att = Return(None)
    /\ b_res = Return(None)
    /\ b_exec = 0
    /\ b_sub = <<>>
    /\ b_prev = {}
    /\ d_pc = "idle"
    /\ d_urls = <<>>
    /\ d_k = 1
    /\ d_task = <<>>
    /\ d_order = <<>>
    /\ d_head = <<>>
    /\ d_res = Return(None)
    /\ variant = "path"
    /\ fs = <<>>
    /\ drive = <<>>
    /\ pc = "idle"
    /\ op = None
    /\ retry = RetryStart
    /\ ret = Return(None)
    /\ last = None
    /\ created = 0
    /\ flt = <<>>
    /\ tmp = None
    /\ heap = Heap(None)
    /\ ref = "none"
    /\ r_drive = (0 :> Root)
    /\ r_pc = [c \in Callers |-> "idle"]
    /\ r_op = [c \in Callers |-> None]
    /\ r_retry = [c \in Callers |-> RetryStart]
    /\ r_ret = [c \in Callers |-> Return(None)]
    /\ r_look = [c \in Callers |-> None]
    /\ r_flt = <<>>
    /\ t_kind = "TokenProvider"
    /\ t_now = 0
    /\ t_margin_sec = DefaultMarginSec
    /\ t_dt_expires = None
    /\ t_token_response = None
    /\ t_issued = 0
    /\ t_calls = 0
    /\ t_ret = Return(None)
    /\ t_call = None
    /\ v_pc = "idle"
    /\ v_arg = 0
    /\ v_n_retries = 0
    /\ v_log = <<>>
    /\ v_slept = 0
    /\ v_ret = Return(None)
    /\ l_pc = "idle"
    /\ l_n = 0
    /\ l_kwargs = <<>>
    /\ l_page_token = None
    /\ l_file_list = <<>>
    /\ l_reqs = <<>>
    /\ l_ret = Return(None)
    /\ s_self = [api_key |-> "k", base_id |-> "b", table_name |-> "t", load_keys |-> None,
                 records |-> <<>>, env_vars |-> <<>>, is_loaded |-> FALSE]
    /\ s_environ = <<>>
    /\ s_queries = 0
    /\ s_ret = Return(None)
    /\ s_call = None
    /\ s_calls = 0
    /\ i_pc = "idle"
    /\ i_image_shape = <<1, 1>>
    /\ i_width = None
    /\ i_height = None
    /\ i_downsample_only = TRUE
    /\ i_ret = Return(None)

\* An adapter of one of the variants over a store that holds its root only.
Init ==
    /\ b_pc = "idle"
    /\ b_n = 0
    /\ b_rs = RetryStart
    /\ b_outs = <<>>
    /\ b_att = Return(None)
    /\ b_res = Return(None)
    /\ b_exec = 0
    /\ b_sub = <<>>
    /\ b_prev = {}
    /\ d_pc = "idle"
    /\ d_urls = <<>>
    /\ d_k = 1
    /\ d_task = <<>>
    /\ d_order = <<>>
    /\ d_head = <<>>
    /\ d_res = Return(None)
    /\ variant \in {"path", "cloudpath", "gdrive"}
    /\ fs = (<<>> :> Dir)
    /\ drive \in (IF variant = "gdrive" THEN GdStarts ELSE {(0 :> Root)})
    /\ pc = "idle"
    /\ op = None
    /\ retry = RetryStart
    /\ ret = Return(None)
    /\ last = None
    /\ created = 0
    /\ flt = <<>>
    /\ tmp = None
    /\ heap = Heap(None)
    /\ ref = "none"
    /\ r_drive = (0 :> Root)
    /\ r_pc = [c \in Callers |-> "idle"]
    /\ r_op = [c \in Callers |-> None]
    /\ r_retry = [c \in Callers |-> RetryStart]
    /\ r_ret = [c \in Callers |-> Return(None)]
    /\ r_look = [c \in Callers |-> None]
    /\ r_flt = <<>>
    /\ t_kind = "TokenProvider"
    /\ t_now = 0
    /\ t_margin_sec = DefaultMarginSec
    /\ t_dt_expires = None
    /\ t_token_response = None
    /\ t_issued = 0
    /\ t_calls = 0
    /\ t_ret = Return(None)
    /\ t_call = None
    /\ v_pc = "idle"
    /\ v_arg = 0
    /\ v_n_retries = 0
    /\ v_log = <<>>
    /\ v_slept = 0
    /\ v_ret = Return(None)
    /\ l_pc = "idle"
    /\ l_n = 0
    /\ l_kwargs = <<>>
    /\ l_page_token = None
    /\ l_file_list = <<>>
    /\ l_reqs = <<>>
    /\ l_ret = Return(None)
    /\ s_self = [api_key |-> "k", base_id |-> "b", table_name |-> "t", load_keys |-> None,
                 records |-> <<>>, env_vars |-> <<>>, is_loaded |-> FALSE]
    /\ s_environ = <<>>
    /\ s_queries = 0
    /\ s_ret = Return(None)
    /\ s_call = None
    /\ s_calls = 0
    /\ i_pc = "idle"
    /\ i_image_shape = <<1, 1>>
    /\ i_width = None
    /\ i_height = None
    /\ i_downsample_only = TRUE
    /\ i_ret = Return(None)

Next == FsNext \/ GdNext

Spec == Init /\ [][Next]_vars

SpecBatch == InitIdle /\ [][BatchNext]_vars

SpecDownload == InitIdle /\ [][DlNext]_vars

\* The downloader with threads that the scheduler does not starve: a free
\* worker takes a queued task, a running task goes on, the caller's thread
\* goes on.
SpecDownloadFair ==
    /\ InitIdle
    /\ [][DlNext]_vars
    /\ WF_vars(DlStart)
    /\ WF_vars(DlGet)
    /\ WF_vars(DlAsCompleted)
    /\ WF_vars(DlReturn)

SpecRace == InitIdle /\ [][RaceNext]_vars

\* A token provider of either class has been constructed, with the default
\* margin or with a margin of its own, and holds no token response.
InitToken ==
    /\ b_pc = "idle"
    /\ b_n = 0
    /\ b_rs = RetryStart
    /\ b_outs = <<>>
    /\ b_att = Return(None)
    /\ b_res = Return(None)
    /\ b_exec = 0
    /\ b_sub = <<>>
    /\ b_prev = {}
    /\ d_pc = "idle"
    /\ d_urls = <<>>
    /\ d_k = 1
    /\ d_task = <<>>
    /\ d_order = <<>>
    /\ d_head = <<>>
    /\ d_res = Return(None)
    /\ variant = "path"
    /\ fs = <<>>
    /\ drive = <<>>
    /\ pc = "idle"
    /\ op = None
    /\ retry = RetryStart
    /\ ret = Return(None)
    /\ last = None
    /\ created = 0
    /\ flt = <<>>
    /\ tmp = None
    /\ heap = Heap(None)
    /\ ref = "none"
    /\ r_drive = (0 :> Root)
    /\ r_pc = [c \in Callers |-> "idle"]
    /\ r_op = [c \in Callers |-> None]
    /\ r_retry = [c \in Callers |-> RetryStart]
    /\ r_ret = [c \in Callers |-> Return(None)]
    /\ r_look = [c \in Callers |-> None]
    /\ r_flt = <<>>
    /\ t_kind \in {"TokenProvider", "TokenProviderRefresh"}
    /\ t_now = 0
    /\ t_margin_sec \in MarginSecs
    /\ t_dt_expires = None
    /\ t_token_response = None
    /\ t_issued = 0
    /\ t_calls = 0
    /\ t_ret = Return(None)
    /\ t_call = None
    /\ v_pc = "idle"
    /\ v_arg = 0
    /\ v_n_retries = 0
    /\ v_log = <<>>
    /\ v_slept = 0
    /\ v_ret = Return(None)
    /\ l_pc = "idle"
    /\ l_n = 0
    /\ l_kwargs = <<>>
    /\ l_page_token = None
    /\ l_file_list = <<>>
    /\ l_reqs = <<>>
    /\ l_ret = Return(None)
    /\ s_self = [api_key |-> "k", base_id |-> "b", table_name |-> "t", load_keys |-> None,
                 records |-> <<>>, env_vars |-> <<>>, is_loaded |-> FALSE]
    /\ s_environ = <<>>
    /\ s_queries = 0
    /\ s_ret = Return(None)
    /\ s_call = None
    /\ s_calls = 0
    /\ i_pc = "idle"
    /\ i_image_shape = <<1, 1>>
    /\ i_width = None
    /\ i_height = None
    /\ i_downsample_only = TRUE
    /\ i_ret = Return(None)

SpecToken == InitToken /\ [][TokenNext]_vars

SpecList == InitIdle /\ [][ListNext]_vars

\* A SecretsConfigAirtable has been constructed, with or without load_keys.
InitSecrets ==
    /\ b_pc = "idle"
    /\ b_n = 0
    /\ b_rs = RetryStart
    /\ b_outs = <<>>
    /\ b_att = Return(None)
    /\ b_res = Return(None)
    /\ b_exec = 0
    /\ b_sub = <<>>
    /\ b_prev = {}
    /\ d_pc = "idle"
    /\ d_urls = <<>>
    /\ d_k = 1
    /\ d_task = <<>>
    /\ d_order = <<>>
    /\ d_head = <<>>
    /\ d_res = Return(None)
    /\ variant = "path"
    /\ fs = <<>>
    /\ drive = <<>>
    /\ pc = "idle"
    /\ op = None
    /\ retry = RetryStart
    /\ ret = Return(None)
    /\ last = None
    /\ created = 0
    /\ flt = <<>>
    /\ tmp = None
    /\ heap = Heap(None)
    /\ ref = "none"
    /\ r_drive = (0 :> Root)
    /\ r_pc = [c \in Callers |-> "idle"]
    /\ r_op = [c \in Callers |-> None]
    /\ r_retry = [c \in Callers |-> RetryStart]
    /\ r_ret = [c \in Callers |-> Return(None)]
    /\ r_look = [c \in Callers |-> None]
    /\ r_flt = <<>>
    /\ t_kind = "TokenProvider"
    /\ t_now = 0
    /\ t_margin_sec = DefaultMarginSec
    /\ t_dt_expires = None
    /\ t_token_response = None
    /\ t_issued = 0
    /\ t_calls = 0
    /\ t_ret = Return(None)
    /\ t_call = None
    /\ v_pc = "idle"
    /\ v_arg = 0
    /\ v_n_retries = 0
    /\ v_log = <<>>
    /\ v_slept = 0
    /\ v_ret = Return(None)
    /\ l_pc = "idle"
    /\ l_n = 0
    /\ l_kwargs = <<>>
    /\ l_page_token = None
    /\ l_file_list = <<>>
    /\ l_reqs = <<>>
    /\ l_ret = Return(None)
    /\ s_self \in {[api_key |-> "k", base_id |-> "b", table_name |-> "t",
                     load_keys |-> keys, records |-> <<>>, env_vars |-> <<>>,
                     is_loaded |-> FALSE] : keys \in LoadKeys}
    /\ s_environ = <<>>
    /\ s_queries = 0
    /\ s_ret = Return(None)
    /\ s_call = None
    /\ s_calls = 0
    /\ i_pc = "idle"
    /\ i_image_shape = <<1, 1>>
    /\ i_width = None
    /\ i_height = None
    /\ i_downsample_only = TRUE
    /\ i_ret = Return(None)

SpecSecrets == InitSecrets /\ [][SecretsNext]_vars

\* calc_resize_dims is called on an image of positive height and width with
\* a target width, a target height or both.
InitImage ==
    /\ b_pc = "idle"
    /\ b_n = 0
    /\ b_rs = RetryStart
    /\ b_outs = <<>>
    /\ b_att = Return(None)
    /\ b_res = Return(None)
    /\ b_exec = 0
    /\ b_sub = <<>>
    /\ b_prev = {}
    /\ d_pc = "idle"
    /\ d_urls = <<>>
    /\ d_k = 1
    /\ d_task = <<>>
    /\ d_order = <<>>
    /\ d_head = <<>>
    /\ d_res = Return(None)
    /\ variant = "path"
    /\ fs = <<>>
    /\ drive = <<>>
    /\ pc = "idle"
    /\ op = None
    /\ retry = RetryStart
    /\ ret = Return(None)
    /\ last = None
    /\ created = 0
    /\ flt = <<>>
    /\ tmp = None
    /\ heap = Heap(None)
    /\ ref = "none"
    /\ r_drive = (0 :> Root)
    /\ r_pc = [c \in Callers |-> "idle"]
    /\ r_op = [c \in Callers |-> None]
    /\ r_retry = [c \in Callers |-> RetryStart]
    /\ r_ret = [c \in Callers |-> Return(None)]
    /\ r_look = [c \in Callers |-> None]
    /\ r_flt = <<>>
    /\ t_kind = "TokenProvider"
    /\ t_now = 0
    /\ t_margin_sec = DefaultMarginSec
    /\ t_dt_expires = None
    /\ t_token_response = None
    /\ t_issued = 0
    /\ t_calls = 0
    /\ t_ret = Return(None)
    /\ t_call = None
    /\ v_pc = "idle"
    /\ v_arg = 0
    /\ v_n_retries = 0
    /\ v_log = <<>>
    /\ v_slept = 0
    /\ v_ret = Return(None)
    /\ l_pc = "idle"
    /\ l_n = 0
    /\ l_kwargs = <<>>
    /\ l_page_token = None
    /\ l_file_list = <<>>
    /\ l_reqs = <<>>
    /\ l_ret = Return(None)
    /\ s_self = [api_key |-> "k", base_id |-> "b", table_name |-> "t", load_keys |-> None,
                 records |-> <<>>, env_vars |-> <<>>, is_loaded |-> FALSE]
    /\ s_environ = <<>>
    /\ s_queries = 0
    /\ s_ret = Return(None)
    /\ s_call = None
    /\ s_calls = 0
    /\ i_pc = "call"
    /\ i_image_shape \in (1..MaxDim) \X (1..MaxDim)
    /\ i_width \in Targets
    /\ i_height \in Targets
    /\ i_width # None \/ i_height # None
    /\ i_downsample_only \in BOOLEAN
    /\ i_ret = Return(None)

SpecImage == InitImage /\ [][ImageNext]_vars

SpecVerify == InitIdle /\ [][VerifyNext]_vars

\* The verifier answers every call and the sleep ends.
SpecVerifyFair ==
    /\ InitIdle
    /\ [][VerifyNext]_vars
    /\ WF_vars(VerifyAttempt)
    /\ WF_vars(VerifySleep)
    /\ WF_vars(VerifyReturnNone)

(***************************************************************************)
(* Claims about the batch executor and the retry policy (SpecBatch).       *)
(***************************************************************************)
Failed(outs) == {i \in DOMAIN outs : Truthy(outs[i].exc)}

HasRateLimit(outs) == \E i \in DOMAIN outs : IsRateLimit(outs[i].exc)

\* C4: an attempt of gapi_batch_wrapper whose collected exceptions include a
\* rate-limit HttpError (reason userRateLimitExceeded) raises
\* TemporaryException, never the aggregated "Batch request failed"
\* Exception, whatever the other requests of the batch did; when that
\* attempt is the call's last, TemporaryException is what the call raises.
C4_RateLimitRaisesTemporary ==
    HasRateLimit(b_outs) =>
        /\ b_att.kind = "raise"
        /\ b_att.exc.t = "TemporaryException"
        /\ b_att.exc.cause \in {b_outs[i].exc : i \in Failed(b_outs)}
        /\ (b_pc = "done" => b_res = b_att)

\* C4 witness: a finished call of three requests whose last attempt had a
\* success, a non-rate-limit failure and then a rate-limit failure.
C4_Witness ==
    /\ b_pc = "done"
    /\ b_n = 3
    /\ Len(b_outs) = 3
    /\ b_outs[1].exc = None
    /\ b_outs[2].exc = NotFound
    /\ b_outs[3].exc = RateLimited
    /\ b_res.kind = "raise"
    /\ b_res.exc.t = "TemporaryException"

\* C5, in the form that holds: an attempt in which requests failed, none of them
\* rate-limited, ends the call at once (no retry of it) with one plain
\* Exception whose message is the header followed by str(e) of every
\* collected error, in request order.
C5_BatchFailureMessage ==
    (Failed(b_outs) # {} /\ ~HasRateLimit(b_outs)) =>
        /\ b_pc = "done"
        /\ b_res = b_att
        /\ b_res.kind = "raise"
        /\ b_res.exc.t = "Exception"
        /\ Len(b_res.exc.msg) = 1 + Cardinality(Failed(b_outs))
        /\ \A i \in Failed(b_outs) :
               b_res.exc.msg[1 + Cardinality({j \in Failed(b_outs) : j <= i})]
                   = StrOf(b_outs[i].exc)
        /\ b_rs.calls = Len(b_rs.slept) + 1

\* C5 witness: a finished call in which two requests failed with a
\* non-rate-limit error and one succeeded.
C5_Witness ==
    /\ b_pc = "done"
    /\ b_n = 3
    /\ Cardinality(Failed(b_outs)) = 2
    /\ ~HasRateLimit(b_outs)
    /\ b_res.kind = "raise"

\* C5 as stated: the raised failure contains each failed request's error
\* object.
C5_CarriesErrorObjects ==
    (b_pc = "done" /\ Failed(b_outs) # {} /\ ~HasRateLimit(b_outs)) =>
        /\ b_res.kind = "raise"
        /\ \A i \in Failed(b_outs) : b_outs[i].exc \in Range(b_res.exc.msg)

\* C7: the wrapped function is attempted at most 4 times, each caught
\* failure but the last is followed by a wait, the waits are 1, 2, 4; a call
\* that ends with TemporaryException made exactly 4 attempts and waited
\* 1, 2 and 4; a call that ends otherwise ends with the outcome of its last
\* attempt, made right after the last wait.
C7_RetryPolicy ==
    /\ b_rs.calls <= 4
    /\ b_rs.slept = SubSeq(<<1, 2, 4>>, 1, Len(b_rs.slept))
    /\ (b_pc = "run" => b_rs.calls = Len(b_rs.slept))
    /\ (b_pc = "done" =>
           /\ b_rs.calls = Len(b_rs.slept) + 1
           /\ b_res = b_att
           /\ (RetryCatches(b_res) <=> b_rs.calls = 4 /\ RetryCatches(b_att))
           /\ (RetryCatches(b_res) => b_rs.slept = <<1, 2, 4>>))

\* C7 witness: a call that failed with a rate limit four times.
C7_Witness ==
    /\ b_pc = "done"
    /\ RetryCatches(b_res)
    /\ b_rs.calls = 4
    /\ b_rs.slept = <<1, 2, 4>>

\* C7 witness of the other case: the third attempt succeeded.
C7_WitnessSuccess ==
    /\ b_pc = "done"
    /\ b_res.kind = "return"
    /\ b_rs.calls = 3

(***************************************************************************)
(* Claims about the parallel downloader (SpecDownload).                    *)
(***************************************************************************)
OkAndFailing == d_urls \in {<<"ok", "fails500">>, <<"fails500", "ok">>} /\ d_k = 2

\* C3, in the form that holds: download_bytes of an always-200 URL and an always-500 URL
\* with max_workers=2 returns no list: once the failing URL has used up its
\* 4 attempts (and every task has finished) the call raises the
\* TemporaryException of that URL.
C3_FailingUrlRaises ==
    (d_pc = "done" /\ OkAndFailing) =>
        /\ d_res.kind = "raise"
        /\ d_res.exc.t = "TemporaryException"
        /\ d_res.exc.cause = PyInt(500)
        /\ \A i \in DOMAIN d_urls :
               d_urls[i] = "fails500" => d_task[i].rs.calls = 4

\* C3 witness: the call with the two URLs has ended, the ok URL's task
\* having completed with its body.
C3_Witness ==
    /\ d_pc = "done"
    /\ OkAndFailing
    /\ d_urls[1] = "ok"
    /\ d_task[1].out = Return(Bytes(<<1, 2>>))
    /\ d_res.kind = "raise"

\* C3 as stated: the call returns a 2-element list holding the ok URL's
\* body and None for the failing URL.
C3_ReturnsNoneForFailingUrl ==
    (d_pc = "done" /\ OkAndFailing) =>
        /\ d_res.kind = "return"
        /\ Len(d_res.val) = 2
        /\ Range(d_res.val) = {Bytes(<<1, 2>>), None}

(***************************************************************************)
(* Claims about the adapters (Spec).                                       *)
(***************************************************************************)
Called(nm) == pc = "idle" /\ op # None /\ op.name = nm

Returned(nm) == Called(nm) /\ ret.kind = "return"

\* The child folders named as in the find-or-create call op, under its
\* parent.
SubfolderCount ==
    IF IsFs
    THEN IF is_dir(fs, Append(op.parent_folder_id.v, op.folder_meta.name)) THEN 1 ELSE 0
    ELSE Cardinality(Matches(drive, op.parent_folder_id.v, TRUE, op.folder_meta.name, TRUE))

\* get_or_create_subfolder has returned twice in a row for the same parent
\* and name.
TwiceInARow == Returned("get_or_create_subfolder") /\ last # None

\* C1, in the form that holds: when get_or_create_subfolder has returned twice in a row
\* for the same parent and name, the second call made no folder and the
\* parent holds a folder of that name; if it holds just one (as it does
\* whenever it held at most one before the first call, and always in the
\* path variants), both calls returned the id of that folder.
C1_SecondCallFindsTheFolder ==
    TwiceInARow =>
        /\ created = 0
        /\ SubfolderCount >= 1
        /\ (IsFs => SubfolderCount = 1)
        /\ (SubfolderCount = 1 =>
               /\ ret.val.id = last.ret.val.id
               /\ IF IsFs
                  THEN ret.val.id = Id(Append(op.parent_folder_id.v, op.folder_meta.name))
                  ELSE ret.val.id.v \in Matches(drive, op.parent_folder_id.v, TRUE,
                                                op.folder_meta.name, TRUE))

\* C1 witness: on the drive, two calls in a row returned the one folder of
\* that name, which the first of them made.
C1_Witness ==
    /\ TwiceInARow
    /\ IsGdrive
    /\ SubfolderCount = 1
    /\ ret.val.id = last.ret.val.id
    /\ ret.val.id = Id(NewId(drive) - 1)

\* C1 witness for the path variants.
C1_WitnessFs ==
    /\ TwiceInARow
    /\ IsFs
    /\ ret.val.id = last.ret.val.id

\* C1 as stated: both calls return the same id, the second makes no folder
\* and exactly one child folder of that name exists afterwards.
C1_SameIdAndOneFolder ==
    TwiceInARow =>
        /\ ret.val.id = last.ret.val.id
        /\ created = 0
        /\ SubfolderCount = 1

\* C2: a get_file_bytes(m.id) that follows the overwrite_file_bytes that
\* returned m, and returns, returns the bytes that were written.
C2_RoundTrip ==
    (Returned("get_file_bytes") /\ last # None) => ret.val = last.op.file_bytes

\* The parents the store holds for the objects of the get_parent_folders
\* call op.
ParentsOf(k) == drive[op.object_ids[k].v].parents

\* C6: a get_parent_folders on existing objects of the drive, the provider
\* answering every request, raises the integrity error when some object has
\* no parent or several, and otherwise returns the FileMeta of each object's
\* parent in the order of the ids.
C6_ParentFolders ==
    (/\ Called("get_parent_folders")
     /\ IsGdrive
     /\ flt = <<>>
     /\ \A k \in DOMAIN op.object_ids : op.object_ids[k].v \in DOMAIN drive) =>
        IF \E k \in DOMAIN op.object_ids : Len(ParentsOf(k)) # 1
        THEN ret = Raise(IntegrityError)
        ELSE ret = Return(List([k \in DOMAIN op.object_ids |->
                    raw_meta_to_file_meta(Raw(drive, ParentsOf(k)[1], {"id", "name"})).val]))

\* C8: a call of the drive adapter in which the provider answered with an
\* error that is not a rate limit ends with an error, the function that met
\* the error having been attempted once.
C8_NonTransientPropagates ==
    (pc = "idle" /\ IsGdrive /\ op # None /\ flt = <<BackendError>>) =>
        /\ ret.kind = "raise"
        /\ retry.calls = 1

\* Whether the id of the get_file_bytes call op resolves to a file.
Resolves ==
    IF IsFs
    THEN op.file_id.v \in DOMAIN fs /\ ~fs[op.file_id.v].dir
    ELSE op.file_id.v \in DOMAIN drive /\ ~drive[op.file_id.v].folder

\* C9: get_file_bytes raises when the id does not resolve to a file, and
\* what it returns is the whole content of the file (never None).
C9_GetFileBytes ==
    Called("get_file_bytes") =>
        /\ (~Resolves => ret.kind = "raise")
        /\ (ret.kind = "return" =>
               /\ Resolves
               /\ ret.val = Bytes(IF IsFs THEN fs[op.file_id.v].data
                                  ELSE drive[op.file_id.v].data))

\* C10: a call of the drive adapter in which the provider answered once with
\* a rate limit, and with no other fault, does not end with the rate-limit
\* error: it was retried.
C10_RateLimitRetried ==
    (pc = "idle" /\ IsGdrive /\ op # None /\ flt = <<RateLimited>>) =>
        (ret.kind = "raise" => ret.exc # RateLimited /\ ret.exc.t # "TemporaryException")

\* Whether the object the overwrite_file_bytes call op returned holds the
\* bytes of the call.
HoldsTheBytes ==
    IF IsFs
    THEN ret.val.id.v \in DOMAIN fs /\ fs[ret.val.id.v] = File(op.file_bytes.data)
    ELSE /\ ret.val.id.v \in DOMAIN drive
         /\ ~drive[ret.val.id.v].folder
         /\ drive[ret.val.id.v].data = op.file_bytes.data

\* Whether the object returned has the name of the call's file_meta and
\* lies in the call's folder.
NamedInFolder ==
    IF IsFs
    THEN ret.val.id = Id(Append(op.folder_id.v, op.file_meta.name))
    ELSE ret.val.id.v \in Matches(drive, op.folder_id.v, TRUE, op.file_meta.name, FALSE)

\* C11: an overwrite_file_bytes that returns has made at most one object and
\* returns the id of an object that holds the bytes; with file_meta.id set
\* that object is the one of that id and nothing was made; with file_meta.id
\* unset it is an object of that name in the folder, found or just made.
C11_OverwriteSemantics ==
    Returned("overwrite_file_bytes") =>
        /\ created <= 1
        /\ HoldsTheBytes
        /\ (op.file_meta.id # None => ret.val.id = op.file_meta.id /\ created = 0)
        /\ (op.file_meta.id = None => NamedInFolder)

\* The same for the remote-drive variant alone.
C11_OverwriteSemanticsGdrive == IsGdrive => C11_OverwriteSemantics

(***************************************************************************)
(* More claims about the parallel downloader (SpecDownload).               *)
(***************************************************************************)
\* The number of entries of sequence s that equal v.
CountOf(s, v) == Cardinality({k \in DOMAIN s : s[k] = v})

\* C12: the task of a URL that answers 404 makes one GET and ends with None,
\* and a call whose URLs answer 200 or 404 only returns, with one None per
\* 404 URL; the task of a URL that answers 503 or 200 makes at most 4 GETs,
\* goes on only after a 503 and ends with the body at its first 200, or with
\* TemporaryException after the 4th 503.
C12_StatusPolicy ==
    /\ \A i \in DOMAIN d_task :
         LET task == d_task[i]
         IN /\ task.rs.calls <= RetryTries
            /\ (d_urls[i] = "gone" =>
                   /\ task.rs.calls <= 1
                   /\ (task.st = "done" => task.rs.calls = 1 /\ task.out = Return(None)))
            /\ (d_urls[i] = "flaky" /\ task.rs.calls > 0 =>
                   IF task.st = "done"
                   THEN \/ task.out = Return(Bytes(<<3>>))
                        \/ RetryCatches(task.out) /\ task.rs.calls = RetryTries
                   ELSE RetryCatches(task.out) /\ task.out.exc.cause = PyInt(503))
    /\ (d_pc = "done" /\ Range(d_urls) \subseteq {"ok", "gone"} =>
           /\ d_res.kind = "return"
           /\ CountOf(d_res.val, None) = CountOf(d_urls, "gone"))

\* C12 witness: a call of a 404 URL and a 503-or-200 URL has returned, the
\* second having got its body at the third GET.
C12_Witness ==
    /\ d_pc = "done"
    /\ d_urls = <<"gone", "flaky">>
    /\ d_task[1].rs.calls = 1
    /\ d_task[2].rs.calls = 3
    /\ d_res.kind = "return"
    /\ Range(d_res.val) = {None, Bytes(<<3>>)}

(***************************************************************************)
(* Claims about concurrent callers (SpecRace).                             *)
(***************************************************************************)
\* Caller c has returned from a call whose lookup found nothing.
ReturnedAfterAbsent(c) ==
    r_pc[c] = "done" /\ r_ret[c].kind = "return" /\ r_look[c] # None

\* The folders of the name and parent of caller c's call.
RaceMatches(c) ==
    Matches(r_drive, r_op[c].parent_folder_id.v, TRUE, r_op[c].folder_meta.name, TRUE)

\* C13: when two callers of get_or_create_subfolder with the same parent and
\* name have both returned from calls whose lookups found no such folder,
\* both have made one: they return different ids, each of a folder of that
\* name under the parent, and the parent holds two such folders.  Nothing
\* keeps a caller that found nothing from creating (no lock): a caller is
\* before its create exactly when its lookup found nothing.
C13_BothCreate ==
    /\ (/\ r_op[1] = r_op[2]
        /\ ReturnedAfterAbsent(1)
        /\ ReturnedAfterAbsent(2)) =>
           /\ r_ret[1].val.id # r_ret[2].val.id
           /\ {r_ret[1].val.id.v, r_ret[2].val.id.v} \subseteq RaceMatches(1)
           /\ Cardinality(RaceMatches(1)) >= 2
    /\ \A c \in Callers : r_pc[c] = "create" => r_look[c] # None

\* C13 witness: both callers looked at the same drive, found nothing, and
\* have returned different folders "a" of the root.
C13_Witness ==
    /\ r_op[1] = r_op[2]
    /\ r_op[1] # None
    /\ r_op[1].parent_folder_id = Id(0)
    /\ ReturnedAfterAbsent(1)
    /\ ReturnedAfterAbsent(2)
    /\ r_look[1] = r_look[2]
    /\ r_ret[1].val.id # r_ret[2].val.id
    /\ Cardinality(RaceMatches(1)) = 2

\* C13 witness of the interleaving: both callers are between their lookup
\* and their create.
C13_WitnessBothBeforeCreate ==
    /\ r_op[1] = r_op[2]
    /\ r_pc[1] = "create"
    /\ r_pc[2] = "create"
    /\ RaceMatches(1) = {}

\* The call has ended and no task used up its retries.
AllReturned ==
    d_pc = "done" /\ \A i \in DOMAIN d_task : d_task[i].out.kind = "return"

\* C14, in the form that holds: when no download used up its retries the
\* call returns one entry per URL, entry k being the result of the k-th task
\* that as_completed yielded: first the tasks that had finished when the
\* gathering began, in any order, then the other tasks in the order in which
\* they finished.
C14_OnePerUrlInYieldOrder ==
    /\ Len(d_head) <= Len(d_order)
    /\ Range(d_head) = Range(SubSeq(d_order, 1, Len(d_head)))
    /\ AllReturned =>
           /\ d_res.kind = "return"
           /\ Len(d_res.val) = Len(d_urls)
           /\ Len(Yielded) = Len(d_urls)
           /\ Range(Yielded) = DOMAIN d_urls
           /\ \A k \in DOMAIN d_res.val : d_res.val[k] = d_task[Yielded[k]].out.val

\* C14 witness: of two URLs the second finished first, both after the
\* gathering began, and its result (None) is at index 0 of the list.
C14_Witness ==
    /\ AllReturned
    /\ d_urls = <<"ok", "gone">>
    /\ d_head = <<>>
    /\ d_order = <<2, 1>>
    /\ d_res = Return(<<None, Bytes(<<1, 2>>)>>)

\* C14 as stated: the entries are in the order in which the tasks finished.
C14_InCompletionOrder ==
    AllReturned =>
        /\ d_res.kind = "return"
        /\ Len(d_res.val) = Len(d_urls)
        /\ \A k \in DOMAIN d_res.val : d_res.val[k] = d_task[d_order[k]].out.val

(***************************************************************************)
(* More claims about the adapters (Spec).                                  *)
(***************************************************************************)
\* The ids of the direct children of the folder of the list_dir_contents
\* call op: in a tree the paths one name longer than the folder's, on the
\* drive the objects out of the trash that have the folder among their
\* parents.
ChildIds ==
    IF IsFs
    THEN {Id(q) : q \in {x \in DOMAIN fs :
                            /\ Len(x) = Len(op.folder_id.v) + 1
                            /\ SubSeq(x, 1, Len(op.folder_id.v)) = op.folder_id.v}}
    ELSE {Id(i) : i \in {x \in DOMAIN drive :
                            /\ \E k \in DOMAIN drive[x].parents :
                                   drive[x].parents[k] = op.folder_id.v
                            /\ ~drive[x].trashed}}

C15_WitnessFs ==
    /\ Returned("list_dir_contents")
    /\ IsFs
    /\ op.folder_id = Id(<<>>)
    /\ <<"a", "b">> \in DOMAIN fs
    /\ DOMAIN ret.val.items = {Id(<<"a">>)}

\* The folder of the list_dir_contents call op exists and is a folder.
FolderExists ==
    IF IsFs
    THEN is_dir(fs, op.folder_id.v)
    ELSE op.folder_id.v \in DOMAIN drive /\ drive[op.folder_id.v].folder

\* C16: list_dir_contents of an existing folder without children, the
\* provider answering the request, returns the empty mapping: it neither
\* raises nor returns None.
C16_EmptyFolder ==
    (/\ Called("list_dir_contents")
     /\ flt = <<>>
     /\ FolderExists
     /\ ChildIds = {}) =>
        /\ ret.kind = "return"
        /\ ret.val # None
        /\ ret.val.t = "mapping"
        /\ DOMAIN ret.val.items = {}

\* C16 witness: an empty folder under the root of the drive was listed.
C16_Witness ==
    /\ Called("list_dir_contents")
    /\ IsGdrive
    /\ flt = <<>>
    /\ op.folder_id = Id(1)
    /\ FolderExists
    /\ ChildIds = {}
    /\ ret.kind = "return"

\* C16 witness for a tree: an empty directory under the root was listed.
C16_WitnessFs ==
    /\ Called("list_dir_contents")
    /\ IsFs
    /\ op.folder_id = Id(<<"a">>)
    /\ FolderExists
    /\ ChildIds = {}
    /\ ret.kind = "return"

\* C17: when a call of overwrite_file_bytes, get_or_create_subfolder or
\* create_subfolder has ended, by a return or by an exception, the FileMeta
\* object the caller passed has the fields it was passed with, and what a
\* return hands back is another object, which holds the returned metadata.
C17_ArgumentNotMutated ==
    (pc = "idle" /\ op # None /\ MetaArg(op) # None) =>
        /\ heap["arg"] = MetaArg(op)
        /\ (ret.kind = "return" =>
               /\ ref = "new"
               /\ heap[ref] = ret.val)
        /\ (ret.kind = "raise" => ref = "none")

\* C17 witness: a path variant has returned from overwrite_file_bytes with
\* metadata whose id differs from the id of the FileMeta that was passed.
C17_Witness ==
    /\ Returned("overwrite_file_bytes")
    /\ IsFs
    /\ op.file_meta.id # None
    /\ ret.val.id # op.file_meta.id
    /\ heap["arg"] = op.file_meta

\* C17 witness for the drive variant.
C17_WitnessGdrive ==
    /\ Returned("overwrite_file_bytes")
    /\ IsGdrive
    /\ ret.val.id # op.file_meta.id
    /\ heap["arg"] = op.file_meta

(***************************************************************************)
(* Claims about the worker pool of the downloader (SpecDownloadFair).      *)
(***************************************************************************)
\* The tasks whose download_file is being run by a worker.
InFlight == {i \in DOMAIN d_task : d_task[i].st = "running"}

\* Task i has made a GET.
Fetched(i) == i \in DOMAIN d_task /\ d_task[i].rs.calls >= 1

\* C18: never more than max_workers downloads are in flight, the call has
\* returned only when every task has finished (each having made a GET),
\* every URL that was submitted is eventually fetched, and the call
\* eventually ends.
C18_WorkerPool ==
    /\ [](Cardinality(InFlight) <= d_k)
    /\ [](d_pc = "done" =>
             \A i \in DOMAIN d_urls : Fetched(i) /\ d_task[i].st = "done")
    /\ \A i \in 1..MaxUrls : (d_pc = "pool" /\ i \in DOMAIN d_urls) ~> Fetched(i)
    /\ (d_pc = "pool") ~> (d_pc = "done")

\* C18 witness: a call with more URLs than workers has ended, every URL
\* having been fetched.
C18_Witness ==
    /\ d_pc = "done"
    /\ d_k = 1
    /\ Len(d_urls) = 2
    /\ \A i \in DOMAIN d_urls : Fetched(i)

(***************************************************************************)
(* More claims about the batch executor (SpecBatch).                       *)
(***************************************************************************)
\* C19: every attempt is one batch execution, which either raised before
\* any callback or answered every request of the call; when the call
\* returns, no request of its last execution had an exception and the list
\* has one entry per request, entry i being the response of request i (None
\* for an empty response).
C19_OneEntryPerRequest ==
    /\ b_exec = b_rs.calls
    /\ Len(b_outs) \in {0, b_n}
    /\ (b_pc = "done" /\ b_res.kind = "return") =>
           /\ Len(b_outs) = b_n
           /\ Failed(b_outs) = {}
           /\ Len(b_res.val) = b_n
           /\ \A i \in 1..b_n :
                  b_res.val[i] = IF b_outs[i].resp = EmptyDict THEN None ELSE b_outs[i].resp

\* C19 witness: a call of three requests has returned; the second request
\* had an empty response and the list holds None in its place.
C19_Witness ==
    /\ b_pc = "done"
    /\ b_n = 3
    /\ b_res = Return(<<SomeDict, None, SomeDict>>)

(***************************************************************************)
(* Claims about the token providers (SpecToken).                           *)
(***************************************************************************)
\* C20: a get_token call refreshes exactly when no response is stored yet
\* or the time of the call is later than dt_expires minus margin_sec
\* seconds; a call that does not refresh leaves the stored response as it
\* was and returns its token.
C20_RefreshOnlyNearExpiry ==
    t_call # None =>
        /\ t_call.refreshed <=>
               \/ t_call.dt_expires = None
               \/ t_call.at > t_call.dt_expires.v - t_call.margin_sec
        /\ (~t_call.refreshed =>
               /\ t_token_response = t_call.token_response
               /\ t_ret = Return(PyInt(t_token_response.id_token)))

\* A call that did not refresh has been made.
C20_ReusedOnce == t_call # None /\ ~t_call.refreshed

\* C21, in the form that holds: for a provider whose margin_sec is
\* positive, after any sequence of get_token calls at non-decreasing times
\* with token responses of positive expires_in, a response is stored, the
\* returned token is the stored response's, and dt_expires is later than
\* the time of the call.
C21_NeverExpiredPositiveMargin ==
    (t_call # None /\ t_call.margin_sec > 0) =>
        /\ t_token_response # None
        /\ t_ret = Return(PyInt(t_token_response.id_token))
        /\ t_dt_expires # None
        /\ t_dt_expires.v > t_call.at

\* A provider with a positive margin has returned a stored token without
\* refreshing.
C21_Witness ==
    /\ t_call # None
    /\ t_call.margin_sec > 0
    /\ ~t_call.refreshed
    /\ t_ret = Return(PyInt(t_token_response.id_token))

\* C21 as stated, for every margin_sec the constructor accepts.
C21_NeverExpired ==
    t_call # None =>
        /\ t_token_response # None
        /\ t_ret = Return(PyInt(t_token_response.id_token))
        /\ t_dt_expires # None
        /\ t_dt_expires.v > t_call.at

\* C22: margin_sec never grows over a call; a call of on_new_expiry leaves
\* margin_sec at most the expires_in it was given, halves expires_in into
\* margin_sec exactly when expires_in was below the margin and leaves the
\* margin alone otherwise, and sets dt_expires to the time of the call plus
\* expires_in seconds; a reduced margin stays for later, longer tokens.
C22_MarginOnlyShrinks ==
    t_call # None =>
        /\ t_margin_sec <= t_call.margin_sec
        /\ t_call.refreshed =>
               LET expires_in == t_token_response.expires_in
               IN /\ t_margin_sec <= expires_in
                  /\ IF expires_in < t_call.margin_sec
                     THEN 2 * t_margin_sec = expires_in
                     ELSE t_margin_sec = t_call.margin_sec
                  /\ t_dt_expires = PyInt(t_call.at + expires_in)
        /\ ~t_call.refreshed =>
               /\ t_margin_sec = t_call.margin_sec
               /\ t_dt_expires = t_call.dt_expires

\* A margin that a short-lived token reduced is still the margin after a
\* later call stored a token that lives an hour.
C22_Witness ==
    /\ t_call # None
    /\ t_call.refreshed
    /\ t_call.margin_sec = 1
    /\ t_token_response.expires_in = 3600
    /\ t_margin_sec = 1

\* The verifier raised with a message that starts with 'Token used too
\* early,' or with "('Connection aborted.', ".
Retryable(out) ==
    out \in {Raise(VerifyError(<<"Token", "used", "too", "early,", "1", "<", "2">>)),
             Raise(VerifyError(<<"('Connection", "aborted.',", "RemoteDisconnected)">>))}

\* What firebase_verify_id_token has done so far is in order: no raise, no
\* more verifier calls than n_retries, no call after a success or after a
\* failure that does not ask for a retry, and at the end the decoded token
\* of the successful call or None.
VerifyInOrder ==
    /\ v_ret.kind = "return"
    /\ Len(v_log) <= (IF v_arg > 0 THEN v_arg ELSE 0)
    /\ \A i \in 1..(Len(v_log) - 1) : Retryable(v_log[i])
    /\ v_pc = "done" =>
           IF v_log # <<>> /\ v_log[Len(v_log)].kind = "return"
           THEN v_ret = Return(v_log[Len(v_log)].val)
           ELSE /\ v_ret = Return(None)
                /\ \/ v_log # <<>> /\ ~Retryable(v_log[Len(v_log)])
                   \/ Len(v_log) = (IF v_arg > 0 THEN v_arg ELSE 0)
    /\ v_pc # "done" => \A i \in 1..Len(v_log) : Retryable(v_log[i])

\* C23: firebase_verify_id_token never raises and always terminates; it
\* calls the verifier at most n_retries times, returns the decoded token of
\* the first successful verification, stops with None after a failure whose
\* message starts with neither retry prefix, and returns None after
\* n_retries retryable failures.
C23_VerifyTerminates ==
    /\ []VerifyInOrder
    /\ (v_pc = "while") ~> (v_pc = "done")

\* A call with the largest n_retries has returned None after that many
\* retryable failures.
C23_Witness ==
    /\ v_pc = "done"
    /\ v_arg = MaxRetries
    /\ Len(v_log) = MaxRetries
    /\ \A i \in 1..MaxRetries : Retryable(v_log[i])
    /\ v_ret = Return(None)

\* A call has returned the decoded token after a retried failure.
C23_WitnessSuccess ==
    /\ v_pc = "done"
    /\ Len(v_log) = 2
    /\ v_ret = Return(DecodedIdToken)

\* A failure that asks for no retry has ended a call that had retries left.
C23_WitnessBreak ==
    /\ v_pc = "done"
    /\ Len(v_log) < v_arg
    /\ v_ret = Return(None)

\* The wrapper slept at least once: the last attempt was a retry.
Retried == b_rs.slept # <<>>

\* C24: when gapi_batch_wrapper retries after a rate-limit failure, every
\* request of the batch is submitted again in every attempt, so each has
\* been submitted once per attempt and at most RetryTries times, and the
\* returned list holds the responses of the last attempt only, one per
\* request, whatever earlier attempts had collected.
C24_WholeBatchAgain ==
    /\ \A i \in 1..b_n : b_sub[i] = b_exec /\ b_sub[i] <= RetryTries
    /\ (b_pc = "done" /\ b_res.kind = "return") =>
           /\ Len(b_res.val) = b_n
           /\ \A i \in 1..b_n :
                  b_res.val[i] = (IF Truthy(b_outs[i].resp) THEN b_outs[i].resp ELSE None)

\* A retried call has returned, and its list lacks a response that the
\* attempt before had collected for the same request.
C24_Witness ==
    /\ b_pc = "done"
    /\ b_res.kind = "return"
    /\ Retried
    /\ b_n >= 2
    /\ \E i \in 1..b_n :
           /\ i \in b_prev
           /\ b_res.val[i] = None

\* A request has been submitted RetryTries times.
C24_WitnessFourTimes ==
    /\ b_pc = "done"
    /\ b_n >= 2
    /\ \A i \in 1..b_n : b_sub[i] = RetryTries

\* The ids of the mapping that list_gdrive returned.
ListedIds == {k.v : k \in DOMAIN l_ret.val.items}

\* The ids of the files in the pages that the provider handed out.
PagedIds ==
    UNION {{l_reqs[k].files[i].id : i \in DOMAIN l_reqs[k].files} : k \in DOMAIN l_reqs}

\* The requests of the loop follow the page tokens: the first without a
\* token, each further one with the token of the response before it, the
\* last one being the first whose response gave none.
FollowsTokens ==
    /\ l_reqs # <<>> => l_reqs[1].pageToken = None
    /\ \A k \in 2..Len(l_reqs) : l_reqs[k].pageToken = l_reqs[k - 1].next
    /\ \A k \in 1..(Len(l_reqs) - 1) : l_reqs[k].next # None
    /\ (l_pc = "done" /\ l_ret.kind = "return") => l_reqs[Len(l_reqs)].next = None

\* C25: the loop of list_gdrive asks for the first page without a token and
\* for each further page with the nextPageToken before it, stops at the
\* first response without one, returns every file of the listing, and sends
\* the same query and the same fields with every page request.
C25_Pagination ==
    /\ FollowsTokens
    /\ \A j, k \in DOMAIN l_reqs :
           l_reqs[j].q = l_reqs[k].q /\ l_reqs[j].fields = l_reqs[k].fields
    /\ (l_pc = "done" /\ l_ret.kind = "return") => ListedIds = PagedIds

\* The part of C25 that holds for every call: the requests follow the page
\* tokens and carry one query, and the files of every page that was asked
\* for are in the returned mapping.
C25_PaginationTokens ==
    /\ FollowsTokens
    /\ \A j, k \in DOMAIN l_reqs : l_reqs[j].q = l_reqs[k].q
    /\ (l_pc = "done" /\ l_ret.kind = "return") => ListedIds = PagedIds

\* C25 for the calls that pass no fields argument (list_dir_contents).
C25_PaginationDefaultFields ==
    (\A k \in DOMAIN l_reqs : l_reqs[k].fields = DefaultFields) => C25_Pagination

\* A call has returned the files of more than two pages.
C25_SeveralPages ==
    /\ l_pc = "done"
    /\ l_ret.kind = "return"
    /\ Len(l_reqs) > 2
    /\ ListedIds = 1..l_n

\* The last call was load_secrets() without reload on a loaded config.
AfterLoadedNoReload == s_call # None /\ s_call.self.is_loaded /\ ~s_call.reload

\* The frame and the effects of load_secrets that hold for every call: a
\* call without reload on a loaded config queries nothing and changes
\* nothing; every other call queries the table once; a call that raises
\* leaves is_loaded as it was; a call that returns after a query leaves the
\* config loaded, its records and env_vars those of the rows the table gave
\* (of the rows of load_keys, when given), and the environment updated by
\* its env_vars.
LoadsOnce ==
    s_call # None =>
        /\ AfterLoadedNoReload =>
               /\ s_queries = s_call.queries
               /\ s_self = s_call.self
               /\ s_environ = s_call.environ
               /\ s_ret = Return(None)
        /\ ~AfterLoadedNoReload => s_queries = s_call.queries + 1
        /\ s_ret.kind = "raise" => s_self.is_loaded = s_call.self.is_loaded
        /\ (s_ret.kind = "return" /\ ~AfterLoadedNoReload) =>
               LET rows == Range(s_call.all.val)
                   loaded == {r \in rows : \/ s_self.load_keys = None
                                           \/ r["key"] \in Range(s_self.load_keys.items)}
               IN /\ s_self.is_loaded
                  /\ DOMAIN s_self.records = {r["key"] : r \in loaded}
                  /\ \A r \in loaded : s_self.records[r["key"]] = r["value"]
                  /\ DOMAIN s_self.env_vars =
                         {r["env_var"] : r \in {x \in loaded : "env_var" \in DOMAIN x}}
                  /\ \A k \in DOMAIN s_self.env_vars : s_environ[k] = s_self.env_vars[k]

C26_WitnessSkipped ==
    /\ AfterLoadedNoReload
    /\ s_self.records # <<>>
    /\ s_queries = 1

\* A first load has raised.
C26_WitnessRaised ==
    /\ s_call # None
    /\ ~s_call.self.is_loaded
    /\ s_ret.kind = "raise"

Resized == i_pc = "done"

\* C27: with downsample_only=True the returned (h1, w1) is never larger
\* than the image in either dimension; it is the image's own size whenever
\* the computed target is at least as wide or at least as high as the
\* image; and when width and height are both given it fits in the width x
\* height box unless it is the image's own size.
C27_NeverEnlarges ==
    (Resized /\ i_downsample_only) =>
        LET h0 == i_image_shape[1]
            w0 == i_image_shape[2]
            h1 == i_ret.val.items[1]
            w1 == i_ret.val.items[2]
            target == resize_target(h0, w0, i_width, i_height)
        IN /\ h1 <= h0
           /\ w1 <= w0
           /\ (target.w1 >= w0 \/ target.h1 >= h0) => <<h1, w1>> = <<h0, w0>>
           /\ (i_width # None /\ i_height # None /\ <<h1, w1>> # <<h0, w0>>) =>
                  h1 <= i_height.v /\ w1 <= i_width.v

\* An image has been given a smaller size inside the box of both targets.
C27_Witness ==
    /\ Resized
    /\ i_downsample_only
    /\ i_width # None
    /\ i_height # None
    /\ i_ret.val.items # i_image_shape
    /\ i_ret.val.items[1] < i_image_shape[1]
    /\ i_ret.val.items[2] < i_image_shape[2]

\* A target larger than the image has been asked for, and the image's own
\* size returned.
C27_WitnessKept ==
    /\ Resized
    /\ i_downsample_only
    /\ i_height # None
    /\ i_height.v > i_image_shape[1]
    /\ i_ret.val.items = i_image_shape

====
